---- MODULE Spec2Model ----
(***************************************************************************)
(* A model of the federation adapter of littr.go                           *)
(* (src/app/frontend/repository.go): the repository that maps accounts,    *)
(* items and votes to ActivityPub objects, posts them to a hub (fedbox)    *)
(* and reads the hub's collections back.                                   *)
(*                                                                         *)
(* IRIs are sequences of path segments: fmt.Sprintf("%s/%s", a, b) is      *)
(* Append(a, b), the empty IRI "" (and a nil as.Item link) is <<>>.        *)
(* Hashes, handles and tokens are strings; Len on them is Go's len.        *)
(***************************************************************************)
EXTENDS Integers, Sequences, FiniteSets, TLC

VARIABLES
    rAccount,   \* repository.Account: the acting account, NilAccount when nil
    signFn,     \* the signing function installed in the shared client
    hubLog,     \* the hub: the Like, Dislike and Undo activities it accepted
    hubFault,   \* TRUE once the hub failed a GET or refused a POST
    call,       \* the running operation: its input, requests and result
    callers,    \* the calling requests: the account each passed to WithAccount
    fold,       \* input and output of the fold of a likes collection
    pure        \* input and output of a conversion to a wire object

vars == <<rAccount, signFn, hubLog, hubFault, call, callers, fold, pure>>

-----------------------------------------------------------------------------
(* Bounds of the model.                                                    *)

\* the hub accepts activities while its log is shorter than this
MaxLog == 3
\* the longest raw likes collection folded by loadVotesCollection
MaxRaw == 3
\* the longest activity collection LoadVotes reconciles
MaxVotes == 3
\* the activity ids the records of such a collection are drawn from
MaxID == 2
\* the most entries of a page LoadItems fetches
MaxPage == 3
\* how far below and above WordLimit the word counts of the items go
Near == 2

-----------------------------------------------------------------------------
(* Identifiers.                                                            *)

NilIRI == <<>>

\* var BaseURL = "http://fedbox.git"; NewRepository sets it to c.APIURL
BaseURL == <<"http://fedbox.git">>
ActorsURL == Append(BaseURL, "actors")
ObjectsURL == Append(BaseURL, "objects")
\* as.PublicNS of the activitystreams vocabulary
PublicNS == <<"https://www.w3.org/ns/activitystreams#Public">>

\* url.PathEscape: the reserved characters of a path segment are
\* percent-encoded; the hashes below made of unreserved characters are kept.
PathEscape(s) ==
    CASE s = "a/b c#d?" -> "a%2Fb%20c%23d%3F"
      [] OTHER -> s

\* the last path segment of an IRI, "" for the empty IRI
LastSegment(iri) == IF Len(iri) = 0 THEN "" ELSE iri[Len(iri)]

-----------------------------------------------------------------------------
(* Accounts (app.Account).  nil marks a nil *app.Account; hasMeta is       *)
(* Metadata != nil; ID, Token, Key and the collection IRIs are fields of   *)
(* the metadata.                                                           *)

Account(hash, handle, valid, logged, hasMeta, id, token, key) ==
    [nil |-> FALSE, Hash |-> hash, Handle |-> handle, valid |-> valid,
     logged |-> logged, hasMeta |-> hasMeta, ID |-> id, Token |-> token,
     Key |-> key, federated |-> FALSE, deleted |-> FALSE,
     InboxIRI |-> NilIRI, OutboxIRI |-> NilIRI, LikedIRI |-> NilIRI,
     FollowersIRI |-> NilIRI, FollowingIRI |-> NilIRI, URL |-> NilIRI,
     Score |-> 0]

NilAccount ==
    [Account("", "", FALSE, FALSE, FALSE, NilIRI, "", "none") EXCEPT !.nil = TRUE]

\* app.Anonymous
Anonymous == "anonymous"

\* app.AnonymousAccount: the sentinel account of the anonymous actor
AnonymousAccount ==
    Account("", Anonymous, FALSE, FALSE, FALSE, NilIRI, "", "none")

AccountA ==
    Account("a1b2c3d4", "alice", TRUE, TRUE, TRUE,
            Append(ActorsURL, "a1b2c3d4"), "tokA", "id-rsa")
AccountB ==
    Account("b1b2c3d4", "bob", TRUE, TRUE, TRUE,
            Append(ActorsURL, "b1b2c3d4"), "tokB", "none")
\* a known account whose session is not logged in
AccountGuest ==
    Account("c1b2c3d4", "carol", TRUE, FALSE, TRUE,
            Append(ActorsURL, "c1b2c3d4"), "", "none")
\* an account of another instance, carrying its own IRIs
AccountFed ==
    [Account("f1b2c3d4", "fred", TRUE, TRUE, TRUE,
             <<"http://remote.example", "users", "fred">>, "", "id-ecdsa")
        EXCEPT !.federated = TRUE,
               !.InboxIRI = <<"http://remote.example", "users", "fred", "inbox">>,
               !.OutboxIRI = <<"http://remote.example", "users", "fred", "outbox">>,
               !.LikedIRI = <<"http://remote.example", "users", "fred", "liked">>,
               !.FollowersIRI = <<"http://remote.example", "users", "fred", "followers">>,
               !.FollowingIRI = <<"http://remote.example", "users", "fred", "following">>,
               !.URL = <<"http://remote.example", "@fred">>]

\* Account.IsValid, Account.IsLogged, Account.HasMetadata, Account.IsFederated
IsValid(a) == ~a.nil /\ a.valid
IsLogged(a) == ~a.nil /\ a.logged
HasMetadata(a) == ~a.nil /\ a.hasMeta
IsFederated(a) == ~a.nil /\ a.federated

-----------------------------------------------------------------------------
(* Actors (auth.Person).  A nil Inbox/Outbox/Liked is NilIRI.              *)

\* getObjectType: the label of a collection object, "" for anything else
getObjectType(el) ==
    CASE el = "Outbox" -> "outbox"
      [] el = "Inbox" -> "inbox"
      [] el = "Liked" -> "liked"
      [] el = "Followers" -> "followers"
      [] el = "Following" -> "following"
      [] OTHER -> ""

BuildCollectionID(a, o) ==
    IF Len(a.Handle) > 0
    THEN ActorsURL \o <<PathEscape(a.Hash), getObjectType(o)>>
    ELSE Append(BaseURL, getObjectType(o))

apAccountID(a) ==
    IF Len(a.Hash) >= 8
    THEN Append(ActorsURL, a.Hash)
    ELSE Append(ActorsURL, "anonymous")

Person(id, inbox, outbox, liked, keyID) ==
    [ID |-> id, Inbox |-> inbox, Outbox |-> outbox, Liked |-> liked,
     PublicKeyID |-> keyID, Followers |-> NilIRI, Following |-> NilIRI,
     URL |-> NilIRI]

\* accountURL: the permalink of a local account on this instance
accountURL(acc) == <<"http://littr.git", "~" \o acc.Handle>>

anonymousPerson(url) ==
    Person(PublicNS, Append(url, "inbox"), NilIRI, NilIRI, NilIRI)

loadAPPerson(a) ==
    LET withIRIs ==
            IF Len(a.Hash) = 0
            THEN Person(NilIRI, NilIRI, NilIRI, NilIRI, NilIRI)
            ELSE IF IsFederated(a)
            THEN [Person(a.ID, a.InboxIRI, a.OutboxIRI, a.LikedIRI, NilIRI)
                    EXCEPT !.Followers = a.FollowersIRI,
                           !.Following = a.FollowingIRI,
                           !.URL = a.URL]
            ELSE [Person(NilIRI,
                         BuildCollectionID(a, "Inbox"),
                         BuildCollectionID(a, "Outbox"),
                         BuildCollectionID(a, "Liked"), NilIRI)
                    EXCEPT !.URL = accountURL(a)]
        withID ==
            IF Len(a.Hash) >= 8
            THEN [withIRIs EXCEPT !.ID = apAccountID(a)]
            ELSE withIRIs
    IN  IF IsValid(a) /\ HasMetadata(a) /\ a.Key # "none"
        THEN [withID EXCEPT !.PublicKeyID = Append(withID.ID, "#main-key")]
        ELSE withID

-----------------------------------------------------------------------------
(* Items (app.Item) and their wire objects.                                *)

\* a nil *app.Item or *app.Account held by an item
NilRef == [nil |-> TRUE]

\* app.MimeTypeURL, app.MimeTypeMarkdown, app.MimeTypeText, app.MimeTypeHTML
MimeTypeURL == "application/url"
MimeTypeMarkdown == "text/markdown"
MimeTypeText == "text/plain"
MimeTypeHTML == "text/html"

\* item.Data: a number of words joined by one separator; no words is ""
Data(words, sep) == [words |-> words, sep |-> sep]
NoData == Data(0, " ")

Item(hash, hasMeta, id, deleted) ==
    [nil |-> FALSE, Hash |-> hash, hasMeta |-> hasMeta, ID |-> id,
     deleted |-> deleted, MimeType |-> MimeTypeText, Data |-> NoData,
     Title |-> "", SubmittedAt |-> 0, UpdatedAt |-> 0, Score |-> 0,
     SubmittedBy |-> NilRef,
     UpdatedBy |-> NilRef, Parent |-> NilRef, OP |-> NilRef]

NilItem == [Item("", FALSE, NilIRI, FALSE) EXCEPT !.nil = TRUE]

\* BuildObjectIDFromItem without the case of an item carrying a remote id
BuildObjectIDFromHash(i) ==
    IF Len(i.Hash) = 0 THEN <<NilIRI, FALSE>>
    ELSE <<Append(ObjectsURL, PathEscape(i.Hash)), TRUE>>

\* BuildObjectIDFromItem: <<id, ok>>
BuildObjectIDFromItem(i) ==
    IF Len(i.Hash) = 0 THEN <<NilIRI, FALSE>>
    ELSE IF i.hasMeta /\ Len(i.ID) > 0 THEN <<i.ID, TRUE>>
    ELSE <<Append(ObjectsURL, PathEscape(i.Hash)), TRUE>>

\* BuildActorID without the case of the anonymous account
BuildActorIDByHash(a) == Append(ActorsURL, PathEscape(a.Hash))

\* BuildActorID
BuildActorID(a) ==
    IF a.Handle = Anonymous THEN PublicNS
    ELSE Append(ActorsURL, PathEscape(a.Hash))

\* the whitespace count of loadAPItem adds to 300
WordLimit == 300

\* strings.Count(data, s) for each s the code counts, added up, for one
\* occurrence of the separator: "\r\n" holds a "\n" and is counted twice
SepCount(sep) ==
    CASE sep = " " -> 1
      [] sep = "\t" -> 1
      [] sep = "\n" -> 1
      [] sep = "\r\n" -> 2
      [] OTHER -> 0

\* wordCount of loadAPItem: the separators between the words
wordCount(data) ==
    (IF data.words > 0 THEN data.words - 1 ELSE 0) * SepCount(data.sep)

\* a content value: unset, the raw data, or app.Markdown of the data
NoContent == [set |-> FALSE, html |-> FALSE, data |-> NoData]
Raw(data) == [set |-> TRUE, html |-> FALSE, data |-> data]
Markdown(data) == [set |-> TRUE, html |-> TRUE, data |-> data]

\* a URL value: unset, the raw data of a link item, or ItemPermaLink
NoURL == [set |-> FALSE, data |-> NoData, hash |-> ""]
DataURL(data) == [set |-> TRUE, data |-> data, hash |-> ""]
ItemPermaLink(item) == [set |-> TRUE, data |-> NoData, hash |-> item.Hash]

\* the type of the object of a live item
ObjectType(item) ==
    IF item.MimeType = MimeTypeURL THEN "Page"
    ELSE IF wordCount(item.Data) > WordLimit THEN "Article" ELSE "Note"

\* InReplyTo that never lists the parent
NoInReplyTo(item) == <<>>

\* the reply-to collection: the id of the parent when one can be built
InReplyTo(item) ==
    IF item.Parent.nil THEN <<>>
    ELSE LET par == BuildObjectIDFromItem(item.Parent)
         IN  IF par[2] THEN <<par[1]>> ELSE <<>>

\* the context: the id of the thread root when one can be built
ContextOf(item) ==
    IF item.OP.nil THEN NilIRI
    ELSE LET op == BuildObjectIDFromItem(item.OP)
         IN  IF op[2] THEN op[1] ELSE NilIRI

\* loadAPItem: the object of a live item, the Tombstone of a deleted one
loadAPItem(item) ==
    LET built == BuildObjectIDFromItem(item)
        id == IF built[2] THEN built[1] ELSE NilIRI
        md == item.MimeType = MimeTypeMarkdown
        text == item.MimeType \in {MimeTypeText, MimeTypeHTML}
        o == [ID |-> id,
              Type |-> ObjectType(item),
              Tombstone |-> FALSE,
              URL |-> IF item.MimeType = MimeTypeURL THEN DataURL(item.Data)
                      ELSE IF Len(item.Hash) > 0 THEN ItemPermaLink(item)
                      ELSE NoURL,
              MediaType |-> IF md THEN MimeTypeHTML
                            ELSE IF text THEN item.MimeType ELSE "",
              SourceMediaType |-> IF md THEN item.MimeType ELSE "",
              Source |-> IF md /\ item.Data # NoData THEN Raw(item.Data)
                         ELSE NoContent,
              Content |-> IF md /\ item.Data # NoData THEN Markdown(item.Data)
                          ELSE IF text THEN Raw(item.Data) ELSE NoContent,
              Updated |-> item.UpdatedAt,
              FormerType |-> "",
              Deleted |-> 0,
              Name |-> item.Title,
              AttributedTo |-> IF item.SubmittedBy.nil THEN NilIRI
                               ELSE BuildActorID(item.SubmittedBy),
              InReplyTo |-> InReplyTo(item),
              Context |-> ContextOf(item)]
    IN  IF item.deleted
        THEN [o EXCEPT !.Type = "Tombstone", !.Tombstone = TRUE,
                       !.FormerType = o.Type, !.Deleted = o.Updated,
                       !.URL = NoURL, !.MediaType = "", !.SourceMediaType = "",
                       !.Source = NoContent, !.Content = NoContent,
                       !.Updated = 0, !.Name = "", !.AttributedTo = NilIRI]
        ELSE o

-----------------------------------------------------------------------------
(* The request client: the signing function of the one shared client.      *)

NoSignFn == [kind |-> "none", acct |-> NilAccount, keyID |-> NilIRI]
\* the closure WithAccount installs: it captures the account and reads the
\* token when a request is signed
BearerFn(a) == [kind |-> "bearer", acct |-> a, keyID |-> NilIRI]
\* getSigner(pubKeyID, key).Sign
SignerFn(a, pubKeyID) == [kind |-> "httpsig", acct |-> a, keyID |-> pubKeyID]

NoAuth == [Authorization |-> "", Signature |-> NilIRI, by |-> ""]

\* what the signing function adds to a request; by is the hash of the
\* account whose credentials were used
Sign(fn) ==
    CASE fn.kind = "bearer" ->
            IF fn.acct.Token = "" THEN NoAuth
            ELSE [Authorization |-> "Bearer " \o fn.acct.Token,
                  Signature |-> NilIRI, by |-> fn.acct.Hash]
      [] fn.kind = "httpsig" ->
            [Authorization |-> "", Signature |-> fn.keyID, by |-> fn.acct.Hash]
      [] OTHER -> NoAuth

Request(method, url, act, fn, status) ==
    [method |-> method, url |-> url, act |-> act, auth |-> Sign(fn),
     status |-> status]

NoAct == [ID |-> NilIRI, Type |-> "", Actor |-> NilIRI, Object |-> NilIRI]
Activity(type, actor, object) ==
    [ID |-> NilIRI, Type |-> type, Actor |-> actor, Object |-> object]

-----------------------------------------------------------------------------
(* Errors and responses.                                                   *)

ErrNil == [kind |-> "nil", code |-> 0, msg |-> ""]
Err(kind, code, msg) == [kind |-> kind, code |-> code, msg |-> msg]

\* a response body: whether it parses as JSON, the errors of an error
\* envelope, and the id of the activity the hub stored
Body(parses, errors, id) == [parses |-> parses, errors |-> errors, ID |-> id]
Unparsable == Body(FALSE, <<>>, NilIRI)

\* what the hub may answer to a POST: a transport error (no response), or
\* a status with a body
Outcome(kind, status, parses, errors) ==
    [kind |-> kind, status |-> status, parses |-> parses, errors |-> errors]
TransportErr == Outcome("err", 0, FALSE, <<>>)
Outcomes ==
    { TransportErr,
      Outcome("http", 200, TRUE, <<>>),
      Outcome("http", 201, TRUE, <<>>),
      Outcome("http", 302, TRUE, <<>>),
      Outcome("http", 400, TRUE, <<[Code |-> 400, Message |-> "Bad Request"]>>),
      Outcome("http", 404, TRUE, <<>>),
      Outcome("http", 500, FALSE, <<>>) }
\* the answers to the Undo of an existing vote, one of each kind the code
\* tells apart
UndoOutcomes == { o \in Outcomes : o.kind = "err" \/ o.status \in {201, 400} }

\* the hub stores what it answers 200 or 201 to
Accepted(out) == out.kind = "http" /\ out.status \in {200, 201}

\* handlerErrorResponse
handlerErrorResponse(body) ==
    IF ~body.parses THEN ErrNil
    ELSE IF Len(body.errors) = 0 THEN ErrNil
    ELSE Err("http", body.errors[1].Code, body.errors[1].Message)

-----------------------------------------------------------------------------
(* The hub: an append-only log of the activities it accepted.              *)

ActivityID(n) == BaseURL \o <<"activities", ToString(n)>>

\* the hub stores an accepted activity under the next id
HubStore(log, act) == Append(log, [act EXCEPT !.ID = ActivityID(Len(log) + 1)])

\* an activity is undone when a later Undo of the log references its id
Undone(log, k) ==
    \E u \in (k + 1)..Len(log) :
        log[u].Type = "Undo" /\ log[u].Object = log[k].ID

RECURSIVE SelectLikes(_, _, _)
SelectLikes(log, url, k) ==
    IF k > Len(log) THEN <<>>
    ELSE IF /\ log[k].Type \in {"Like", "Dislike"}
            /\ Append(log[k].Object, "likes") = url
            /\ ~Undone(log, k)
         THEN <<log[k]>> \o SelectLikes(log, url, k + 1)
         ELSE SelectLikes(log, url, k + 1)

\* GET {item}/likes: the Like and Dislike activities on the item that no
\* Undo cancelled, oldest first
LikesCollection(log, url) == SelectLikes(log, url, 1)

-----------------------------------------------------------------------------
(* Votes (app.Vote).  hasMeta is Metadata != nil; IRI and OriginalIRI are  *)
(* fields of the metadata.                                                 *)

Vote(by, item, weight, hasMeta, iri, original) ==
    [SubmittedBy |-> by, Item |-> item, Weight |-> weight,
     hasMeta |-> hasMeta, IRI |-> iri, OriginalIRI |-> original]

\* app.Vote{}
NoVote == Vote(NilAccount, NilItem, 0, FALSE, NilIRI, NilIRI)

\* Account.FromActivityPub of an actor IRI: the hash is its last segment
AccountFromIRI(iri) ==
    Account(LastSegment(iri), "", TRUE, FALSE, TRUE, iri, "", "none")

\* Item.FromActivityPub of an object IRI
ItemFromIRI(iri) == Item(LastSegment(iri), TRUE, iri, FALSE)

\* Vote.FromActivityPub: <<vote, error>>.  A Like weighs +1, a Dislike -1,
\* an Undo 0 and names the activity it undoes; the metadata carries the id
\* of the activity.
VoteFromActivityPub(v, act) ==
    IF act.Type \in {"Like", "Dislike", "Undo"}
    THEN << Vote(AccountFromIRI(act.Actor), ItemFromIRI(act.Object),
                 CASE act.Type = "Like" -> 1
                   [] act.Type = "Dislike" -> -1
                   [] OTHER -> 0,
                 TRUE, act.ID,
                 IF act.Type = "Undo" THEN act.Object ELSE NilIRI),
            ErrNil >>
    ELSE << v, Err("invalid", 0, "unable to load vote from activity") >>

\* FoldVote with the weight of a repeated submitter dropped instead of added
FoldVoteKeepFirst(votes, vot) ==
    IF \E i \in DOMAIN votes : votes[i].SubmittedBy.Hash = vot.SubmittedBy.Hash
    THEN votes
    ELSE Append(votes, vot)

\* one step of the fold of loadVotesCollection: the weight of vot is added
\* to every kept record of the same submitter, and vot is appended when no
\* record of that submitter is kept yet
FoldVote(votes, vot) ==
    IF \E i \in DOMAIN votes : votes[i].SubmittedBy.Hash = vot.SubmittedBy.Hash
    THEN [i \in DOMAIN votes |->
            IF votes[i].SubmittedBy.Hash = vot.SubmittedBy.Hash
            THEN [votes[i] EXCEPT !.Weight = @ + vot.Weight]
            ELSE votes[i]]
    ELSE Append(votes, vot)

RECURSIVE FoldVotes(_, _)
FoldVotes(allVotes, votes) ==
    IF allVotes = <<>> THEN votes
    ELSE FoldVotes(Tail(allVotes), FoldVote(votes, Head(allVotes)))

\* loadVotesCollection, applied to the items of the fetched collection
loadVotesCollection(items) ==
    LET allVotes == [i \in DOMAIN items |-> VoteFromActivityPub(NoVote, items[i])[1]]
    IN  FoldVotes(allVotes, <<>>)

-----------------------------------------------------------------------------
(* SaveVote.                                                               *)

\* no operation is running: the caller has taken the result of the last one
Idle == [op |-> "idle", caller |-> 0, requests |-> <<>>, panic |-> FALSE,
         err |-> ErrNil]

\* the vote of the submitter of v among the folded votes of the item, or
\* the empty vote
RECURSIVE VoteExists(_, _)
VoteExists(itemVotes, v) ==
    IF itemVotes = <<>> THEN NoVote
    ELSE IF ~Head(itemVotes).SubmittedBy.nil /\ ~v.SubmittedBy.nil
            /\ Head(itemVotes).SubmittedBy.Hash = v.SubmittedBy.Hash
         THEN Head(itemVotes)
         ELSE VoteExists(Tail(itemVotes), v)

\* VoteActivity without the comparison with the existing weight
VoteActivityAnySign(v, exists, act, o) ==
    IF v.Weight > 0
    THEN [act EXCEPT !.Type = "Like", !.Object = o.ID]
    ELSE IF v.Weight < 0
    THEN [act EXCEPT !.Type = "Dislike", !.Object = o.ID]
    ELSE act

\* the activity of the final POST: the Undo activity, turned into a Like or
\* a Dislike of the object when the weight changes side
VoteActivity(v, exists, act, o) ==
    IF v.Weight > 0 /\ exists.Weight <= 0
    THEN [act EXCEPT !.Type = "Like", !.Object = o.ID]
    ELSE IF v.Weight < 0 /\ exists.Weight >= 0
    THEN [act EXCEPT !.Type = "Dislike", !.Object = o.ID]
    ELSE act

\* the object of the Undo activity
UndoObject(v, exists) == IF v.hasMeta THEN v.IRI ELSE NilIRI

\* VoteRequests with the vote posted before the Undo
VoteRequestsVoteFirst(get, undo, final) == get \o final \o undo

\* the requests of one SaveVote in the order they are issued
VoteRequests(get, undo, final) == get \o undo \o final

\* the actor of the vote's activities: the submitter when the repository
\* acts for the submitter, the anonymous account otherwise
VoteActor(v, acct) ==
    IF ~acct.nil /\ acct.Hash = v.SubmittedBy.Hash
    THEN loadAPPerson(v.SubmittedBy)
    ELSE loadAPPerson(AnonymousAccount)

\* the IRI of the likes collection of the vote's item
LikesIRI(v) == Append(v.Item.ID, "likes")

\* the existing vote of the submitter on the item; a failed GET of the
\* likes is logged and leaves no votes
ExistingVote(v, likesOk, log) ==
    VoteExists(IF likesOk
               THEN loadVotesCollection(LikesCollection(log, LikesIRI(v)))
               ELSE <<>>, v)

\* what SaveVote writes to the logger for the answer to the Undo of the
\* existing vote
UndoLogged(undoOut) ==
    IF undoOut.kind = "err" THEN <<"post failed">>
    ELSE IF undoOut.status \in {200, 201}
    THEN <<"unable to undo previous vote">>
    ELSE <<>>

\* the two POSTs of SaveVote, for the actor p and the existing vote exists
SaveVotePosts(v, likesOk, undoOut, out, fn, log, p, exists) ==
    LET get == Request("GET", LikesIRI(v), NoAct, fn, IF likesOk THEN 200 ELSE 0)
        o == loadAPItem(v.Item)
        undo == Activity("Undo", p.ID, UndoObject(v, exists))
        doUndo == exists.hasMeta
        \* p.Outbox.GetLink() of a nil Outbox, resp.Body of a nil response
        undoPanics == doUndo /\ (p.Outbox = NilIRI \/ undoOut.kind = "err")
        undoReq == IF doUndo /\ p.Outbox # NilIRI
                   THEN <<Request("POST", p.Outbox, undo, fn, undoOut.status)>>
                   ELSE <<>>
        log1 == IF doUndo /\ ~undoPanics /\ Accepted(undoOut)
                THEN HubStore(log, undo) ELSE log
        act == VoteActivity(v, exists, undo, o)
        panics == undoPanics \/ p.Outbox = NilIRI
        finalReq == IF panics THEN <<>>
                    ELSE <<Request("POST", p.Outbox, act, fn, out.status)>>
        stored == ~panics /\ Accepted(out)
        log2 == IF stored THEN HubStore(log1, act) ELSE log1
        rebuilt == VoteFromActivityPub(v, act)
    IN  [requests |-> VoteRequests(<<get>>, undoReq, finalReq),
         exists |-> exists,
         logged |-> (IF likesOk THEN <<>> ELSE <<"unable to load votes">>)
                    \o (IF undoReq # <<>> THEN UndoLogged(undoOut) ELSE <<>>)
                    \o (IF ~panics /\ out.kind = "err"
                        THEN <<"post failed">> ELSE <<>>),
         panic |-> panics,
         log |-> log2,
         assigned |-> IF stored THEN log2[Len(log2)].ID ELSE NilIRI,
         ret |-> IF panics THEN NoVote
                 ELSE IF out.kind = "err" \/ ~Accepted(out) THEN v
                 ELSE rebuilt[1],
         err |-> IF panics THEN ErrNil
                 ELSE IF out.kind = "err" THEN Err("transport", 0, "post failed")
                 ELSE IF Accepted(out) THEN rebuilt[2]
                 ELSE handlerErrorResponse(Body(out.parses, out.errors, NilIRI)),
         fault |-> \/ ~likesOk
                   \/ undoReq # <<>> /\ ~Accepted(undoOut)
                   \/ finalReq # <<>> /\ ~Accepted(out)]

\* the result of SaveVote for a vote that passed validation, under account
\* acct, signing function fn and hub log log; likesOk, undoOut and out are
\* the hub's answers to the GET of the likes and to the two POSTs
SaveVoteRun(v, likesOk, undoOut, out, acct, fn, log) ==
    SaveVotePosts(v, likesOk, undoOut, out, fn, log,
                  VoteActor(v, acct), ExistingVote(v, likesOk, log))

\* the result of SaveVote: the validation of the vote, then the run
SaveVoteResult(v, likesOk, undoOut, out, acct, fn, log) ==
    LET rejected(msg) ==
            [requests |-> <<>>, exists |-> NoVote, logged |-> <<>>,
             panic |-> FALSE,
             log |-> log, assigned |-> NilIRI, ret |-> NoVote,
             err |-> Err("invalid", 0, msg), fault |-> FALSE]
    IN  IF v.SubmittedBy.nil \/ ~v.SubmittedBy.hasMeta
        THEN rejected("Invalid vote submitter")
        ELSE IF v.Item.nil \/ ~v.Item.hasMeta
        THEN rejected("Invalid vote item")
        ELSE SaveVoteRun(v, likesOk, undoOut, out, acct, fn, log)

SaveVote(v, likesOk, undoOut, out) ==
    \E res \in {SaveVoteResult(v, likesOk, undoOut, out, rAccount, signFn, hubLog)} :
        /\ call = Idle
        /\ Len(hubLog) + 2 <= MaxLog
        /\ hubLog' = res.log
        /\ hubFault' = (hubFault \/ res.fault)
        /\ call' = [op |-> "SaveVote", caller |-> 0, v |-> v, out |-> out,
                    exists |-> res.exists, requests |-> res.requests,
                    logged |-> res.logged,
                    panic |-> res.panic, assigned |-> res.assigned,
                    ret |-> res.ret, err |-> res.err]
        /\ UNCHANGED <<rAccount, signFn, callers, fold, pure>>

-----------------------------------------------------------------------------
(* WithAccount.                                                            *)

WithAccount(a) ==
    /\ call = Idle
    /\ IF ~IsValid(a) \/ ~IsLogged(a)
       THEN UNCHANGED <<rAccount, signFn>>
       ELSE /\ rAccount' = a
            /\ signFn' = BearerFn(a)
    /\ call' = [op |-> "WithAccount", caller |-> 0, a |-> a,
                requests |-> <<>>, panic |-> FALSE, err |-> ErrNil]

-----------------------------------------------------------------------------------------------------------------------------------------------------
(* withAccountS2S: the account's key signs the requests.                   *)

withAccountS2S(a) ==
    /\ call = Idle
    /\ rAccount' = a
    /\ LET done(fn, panic, err) ==
               /\ signFn' = fn
               /\ call' = [op |-> "withAccountS2S", caller |-> 0, a |-> a,
                           requests |-> <<>>, panic |-> panic, err |-> err]
       IN  IF a.nil \/ a.Hash = AnonymousAccount.Hash
           THEN done(signFn, FALSE, ErrNil)
           \* r.Account.Metadata.Key of a nil Metadata
           ELSE IF ~a.hasMeta THEN done(signFn, TRUE, ErrNil)
           ELSE IF a.Key = "none" THEN done(signFn, FALSE, ErrNil)
           ELSE IF a.Key = "id-rsa-bad"
           THEN done(signFn, FALSE, Err("key", 0, "x509: failed to parse private key"))
           ELSE IF a.Key = "id-ecdsa"
           THEN done(signFn, FALSE, Err("key", 0, "unsupported private key type"))
           ELSE done(SignerFn(a, loadAPPerson(a).PublicKeyID), FALSE, ErrNil)

-----------------------------------------------------------------------------
(* SaveItem and SaveAccount.                                               *)

\* the author of a saved activity and the collection it is posted to: the
\* outbox of the repository's account, the hub inbox for the anonymous actor
SaveAuthor(acct) ==
    IF ~acct.nil
    THEN [person |-> loadAPPerson(acct), reqURL |-> loadAPPerson(acct).Outbox]
    ELSE [person |-> anonymousPerson(BaseURL),
          reqURL |-> anonymousPerson(BaseURL).Inbox]

\* SaveActivity that never creates
SaveActivityUpdates(deleted, obj, author) ==
    IF deleted
    THEN IF Len(obj.ID) = 0 THEN <<NoAct, FALSE>>
         ELSE <<Activity("Delete", author.ID, obj.ID), TRUE>>
    ELSE <<Activity("Update", author.ID, obj), TRUE>>

\* the activity that saves the wire object obj: <<activity, ok>>; a Delete
\* names the id of the object, a Create and an Update carry the object; a
\* deleted entity without id has none
SaveActivity(deleted, obj, author) ==
    IF deleted
    THEN IF Len(obj.ID) = 0 THEN <<NoAct, FALSE>>
         ELSE <<Activity("Delete", author.ID, obj.ID), TRUE>>
    ELSE IF Len(obj.ID) = 0 THEN <<Activity("Create", author.ID, obj), TRUE>>
    ELSE <<Activity("Update", author.ID, obj), TRUE>>

\* handleItemSaveSuccessResponse: the body is parsed and the authors of the
\* item are loaded; items[0] of the nil result of a failed load panics
handleItemSaveSuccessResponse(body, authorsOk) ==
    IF ~body.parses THEN [panic |-> FALSE, err |-> Err("json", 0, "unable to unmarshal")]
    ELSE IF ~authorsOk THEN [panic |-> TRUE, err |-> ErrNil]
    ELSE [panic |-> FALSE, err |-> ErrNil]

\* the POST of SaveItem and SaveAccount and the reading of its answer
SavePost(op, deleted, obj, out, onSuccess, acct, fn) ==
    LET author == SaveAuthor(acct)
        act == SaveActivity(deleted, obj, author.person)
        \* err.Error() of a nil error, GetLink() of a nil Outbox
        panics == ~act[2] \/ author.reqURL = NilIRI
        req == Request("POST", author.reqURL, act[1], fn, out.status)
    IN  IF panics
        THEN [requests |-> <<>>, panic |-> TRUE, err |-> ErrNil]
        ELSE IF out.kind = "err"
        THEN [requests |-> <<req>>, panic |-> FALSE,
              err |-> Err("transport", 0, "post failed")]
        ELSE IF out.status >= 400
        THEN [requests |-> <<req>>, panic |-> FALSE,
              err |-> handlerErrorResponse(Body(out.parses, out.errors, NilIRI))]
        ELSE [requests |-> <<req>>, panic |-> onSuccess.panic,
              err |-> onSuccess.err]

SaveItem(it, out, authorsOk) ==
    \E res \in {SavePost("SaveItem", it.deleted, loadAPItem(it), out,
                         handleItemSaveSuccessResponse(
                             Body(out.parses, out.errors, NilIRI), authorsOk),
                         rAccount, signFn)} :
        /\ call = Idle
        /\ call' = [op |-> "SaveItem", caller |-> 0, it |-> it, out |-> out,
                    requests |-> res.requests, panic |-> res.panic,
                    err |-> res.err]
        /\ hubFault' = (hubFault \/ (res.requests # <<>> /\ ~Accepted(out)))
        /\ UNCHANGED <<rAccount, signFn, hubLog>>

SaveAccount(a, out) ==
    \E res \in {SavePost("SaveAccount", a.deleted, loadAPPerson(a), out,
                         IF out.parses
                         THEN [panic |-> FALSE, err |-> ErrNil]
                         ELSE [panic |-> FALSE,
                               err |-> Err("json", 0, "unable to unmarshal")],
                         rAccount, signFn)} :
        /\ call = Idle
        /\ call' = [op |-> "SaveAccount", caller |-> 0, a |-> a, out |-> out,
                    requests |-> res.requests, panic |-> res.panic,
                    err |-> res.err]
        /\ hubFault' = (hubFault \/ (res.requests # <<>> /\ ~Accepted(out)))
        /\ UNCHANGED <<rAccount, signFn, hubLog>>

-----
(* The inputs.                                                             *)

Item1 == Item("i1i2i3i4", TRUE, Append(ObjectsURL, "i1i2i3i4"), FALSE)

\* the ids the hub has assigned so far
KnownIRIs(log) == {ActivityID(k) : k \in 1..Len(log)}

\* well-formed votes of the two accounts on the item
GoodVotes(log) ==
    { Vote(a, Item1, w, m, iri, NilIRI) :
        a \in {AccountA, AccountB}, w \in {-1, 0, 1}, m \in {TRUE},
        iri \in KnownIRIs(log) }
    \cup { Vote(a, Item1, w, FALSE, NilIRI, NilIRI) :
             a \in {AccountA, AccountB}, w \in {-1, 0, 1} }

\* votes whose submitter or item is missing, has no metadata or has no
\* remote id
BadVotes ==
    { Vote(a, Item1, 1, FALSE, NilIRI, NilIRI) :
        a \in {NilAccount, [AccountA EXCEPT !.hasMeta = FALSE],
               [AccountA EXCEPT !.ID = NilIRI]} }
    \cup { Vote(AccountA, i, 1, FALSE, NilIRI, NilIRI) :
             i \in {NilItem, [Item1 EXCEPT !.hasMeta = FALSE],
                    [Item1 EXCEPT !.ID = NilIRI]} }

WithAccountInputs == {NilAccount, AccountA, AccountB, AccountGuest}

\* a stored item, a new item without hash, and both deleted
ItemInputs ==
    { Item1, Item("", FALSE, NilIRI, FALSE),
      [Item1 EXCEPT !.deleted = TRUE], Item("", FALSE, NilIRI, TRUE) }

\* a stored account, a new account without hash, and both deleted
AccountInputs ==
    { AccountB, Account("", "dave", FALSE, FALSE, FALSE, NilIRI, "", "none"),
      [AccountB EXCEPT !.deleted = TRUE],
      [Account("", "dave", FALSE, FALSE, FALSE, NilIRI, "", "none")
          EXCEPT !.deleted = TRUE] }

-----------------------------------------------------------------------------
(* The repository after NewRepository, and its operations called one       *)
(* after the other.                                                        *)

Callers == {1, 2}
\* acct[c]: the account caller c last passed to WithAccount; s2s[c]: it
\* called withAccountS2S since; last and via: the account and the method of the most
\* recent such call of any caller; who: the caller of the running operation
NoCallers == [acct |-> [c \in Callers |-> NilAccount],
              s2s |-> [c \in Callers |-> FALSE],
              last |-> NilAccount, via |-> "", who |-> 0]

Init ==
    /\ rAccount = NilAccount
    /\ signFn = NoSignFn
    /\ hubLog = <<>>
    /\ hubFault = FALSE
    /\ call = Idle
    /\ callers = NoCallers
    /\ fold = [items |-> <<>>, votes |-> <<>>, done |-> FALSE]
    /\ pure = <<>>

DoWithAccount ==
    /\ call = Idle
    /\ \E a \in WithAccountInputs :
        WithAccount(a) /\ UNCHANGED <<hubLog, hubFault, callers, fold, pure>>

\* the hub serves the likes collection of the item it stores; a GET of any
\* other IRI fails
HubServes(url) == url = Append(Item1.ID, "likes")

\* the hub answers the requests that are sent: likesOk, undoOut and out
\* are drawn for the GET and the POSTs this vote leads to
Posted(v, likesOk) ==
    LET ok == Outcome("http", 201, TRUE, <<>>)
    IN  Len(SaveVoteResult(v, likesOk, ok, ok, rAccount, signFn, hubLog).requests)

DoSaveVote ==
    /\ call = Idle
    /\ Len(hubLog) + 2 <= MaxLog
    /\ \E v \in GoodVotes(hubLog) \cup BadVotes, likesOk \in BOOLEAN :
        \E n \in {Posted(v, likesOk)} :
            /\ likesOk => n > 0 /\ HubServes(LikesIRI(v))
            /\ \E undoOut \in IF n = 3 THEN UndoOutcomes ELSE {TransportErr},
                  out \in IF n >= 2 THEN Outcomes ELSE {TransportErr} :
                   SaveVote(v, likesOk, undoOut, out)

DoSaveItem ==
    /\ call = Idle
    /\ \E it \in ItemInputs, out \in Outcomes, authorsOk \in BOOLEAN :
        SaveItem(it, out, authorsOk) /\ UNCHANGED <<callers, fold, pure>>

DoSaveAccount ==
    /\ call = Idle
    /\ \E a \in AccountInputs, out \in Outcomes :
        SaveAccount(a, out) /\ UNCHANGED <<callers, fold, pure>>

\* the operation returns: the caller takes its result
Return ==
    /\ call # Idle
    /\ call' = Idle
    /\ UNCHANGED <<rAccount, signFn, hubLog, hubFault, callers, fold, pure>>

Next == DoWithAccount \/ DoSaveVote \/ DoSaveItem \/ DoSaveAccount \/ Return

Spec == Init /\ [][Next]_vars

-----------------------------------------------------------------------------
(* Two calling requests share the repository (handler.Repository puts the  *)
(* one h.storage into the context of every request): each passes its       *)
(* account to WithAccount and then saves.                                  *)

S2SInputs == {NilAccount, AccountA, AccountFed}

CallerWithAccount ==
    /\ call = Idle
    /\ \E c \in Callers, a \in WithAccountInputs :
        /\ WithAccount(a)
        /\ callers' = [acct |-> [callers.acct EXCEPT ![c] = a],
                       s2s |-> [callers.s2s EXCEPT ![c] = FALSE],
                       last |-> a, via |-> "WithAccount", who |-> c]
        /\ UNCHANGED <<hubLog, hubFault, fold, pure>>

CallerWithAccountS2S ==
    /\ call = Idle
    /\ \E c \in Callers, a \in S2SInputs :
        /\ withAccountS2S(a)
        /\ callers' = [acct |-> callers.acct,
                       s2s |-> [callers.s2s EXCEPT ![c] = TRUE],
                       last |-> a, via |-> "withAccountS2S", who |-> c]
        /\ UNCHANGED <<hubLog, hubFault, fold, pure>>

CallerSaveItem ==
    /\ call = Idle
    /\ \E c \in Callers, it \in ItemInputs, out \in Outcomes, authorsOk \in BOOLEAN :
        /\ SaveItem(it, out, authorsOk)
        /\ callers' = [callers EXCEPT !.who = c]
        /\ UNCHANGED <<fold, pure>>

CallerSaveAccount ==
    /\ call = Idle
    /\ \E c \in Callers, a \in AccountInputs, out \in Outcomes :
        /\ SaveAccount(a, out)
        /\ callers' = [callers EXCEPT !.who = c]
        /\ UNCHANGED <<fold, pure>>

NextCallers ==
    \/ CallerWithAccount
    \/ CallerWithAccountS2S
    \/ CallerSaveItem
    \/ CallerSaveAccount
    \/ Return

SpecCallers == Init /\ [][NextCallers]_vars

-----------------------------------------------------------------------------
(* loadVotesCollection applied to every likes collection of at most        *)
(* MaxRaw Like, Dislike and Undo activities of two actors.                 *)

RawKinds ==
    { Activity(t, a.ID, Item1.ID) :
        t \in {"Like", "Dislike", "Undo"}, a \in {AccountA, AccountB} }

\* the collections: the hub gives the k-th record the k-th activity id
RawCollections ==
    UNION { { [k \in 1..n |-> [f[k] EXCEPT !.ID = ActivityID(k)]] :
                f \in [1..n -> RawKinds] } : n \in 0..MaxRaw }

InitFold ==
    /\ rAccount = NilAccount
    /\ signFn = NoSignFn
    /\ hubLog = <<>>
    /\ hubFault = FALSE
    /\ call = Idle
    /\ callers = NoCallers
    /\ fold \in { [items |-> c, votes |-> <<>>, done |-> FALSE] :
                    c \in RawCollections }
    /\ pure = <<>>

LoadVotesCollection ==
    /\ ~fold.done
    /\ fold' = [fold EXCEPT !.votes = loadVotesCollection(fold.items),
                            !.done = TRUE]
    /\ UNCHANGED <<rAccount, signFn, hubLog, hubFault, call, callers, pure>>

NextFold == LoadVotesCollection

SpecFold == InitFold /\ [][NextFold]_vars

-----------------------------------------------------------------------------
(* The properties.                                                         *)

Sgn(w) == IF w > 0 THEN 1 ELSE IF w < 0 THEN -1 ELSE 0

IsUndoPost(r) == r.method = "POST" /\ r.act.Type = "Undo"
IsVotePost(r) == r.method = "POST" /\ r.act.Type \in {"Like", "Dislike"}

\* the Like and Dislike activities of the actor on the object that the log
\* holds and no later Undo references
EffectiveVotes(log, actor, object) ==
    { k \in 1..Len(log) :
        /\ log[k].Type \in {"Like", "Dislike"}
        /\ log[k].Actor = actor
        /\ log[k].Object = object
        /\ ~Undone(log, k) }

\* the final POST of the running SaveVote, SaveItem or SaveAccount was
\* answered by the hub
FinalAnswered ==
    /\ call.op \in {"SaveVote", "SaveItem", "SaveAccount"}
    /\ call.requests # <<>>
    /\ call.requests[Len(call.requests)].method = "POST"
    /\ call.out.kind = "http"
    /\ call.requests[Len(call.requests)].status = call.out.status
    /\ call.op = "SaveVote" => ~call.panic

\* C1: against a hub that stored every posted activity and answered every
\* request, the log never holds more than one Like/Dislike of one actor on
\* the item that has not been undone.
C1_AtMostOneEffectiveVote ==
    ~hubFault =>
        \A a \in {AccountA, AccountB} :
            Cardinality(EffectiveVotes(hubLog, apAccountID(a), Item1.ID)) <= 1

\* C2: a SaveVote with a nonzero weight whose sign is opposite to the
\* nonzero existing weight posts no Like/Dislike without an Undo posted
\* before it, and when it runs to its end it has posted exactly the Undo and
\* then the Like (weight > 0) or Dislike (weight < 0).
C2_UndoBeforeVote ==
    (/\ call.op = "SaveVote"
     /\ Sgn(call.v.Weight) # 0
     /\ Sgn(call.exists.Weight) = -Sgn(call.v.Weight))
    => /\ \A i \in DOMAIN call.requests :
            IsVotePost(call.requests[i])
            => \E j \in 1..(i - 1) : IsUndoPost(call.requests[j])
       /\ ~call.panic
          => /\ Len(call.requests) = 3
             /\ IsUndoPost(call.requests[2])
             /\ call.requests[3].method = "POST"
             /\ call.requests[3].act.Type =
                    IF call.v.Weight > 0 THEN "Like" ELSE "Dislike"

\* an upvote was turned into a downvote: the hub stored the Undo and then
\* the Dislike
C2_Witness ==
    /\ call.op = "SaveVote"
    /\ call.v.Weight < 0
    /\ call.exists.Weight > 0
    /\ Len(call.requests) = 3
    /\ IsUndoPost(call.requests[2])
    /\ call.requests[2].status = 201
    /\ call.requests[3].act.Type = "Dislike"
    /\ call.requests[3].status = 201

\* C3: every Undo that SaveVote posts when a vote of the submitter exists
\* has the activity id of that existing vote as its object.
C3_UndoReferencesExistingVote ==
    (call.op = "SaveVote" /\ call.exists.hasMeta)
    => \A i \in DOMAIN call.requests :
            IsUndoPost(call.requests[i])
            => call.requests[i].act.Object = call.exists.IRI

\* C4: every Like or Dislike that SaveVote posts targets the item, has the
\* type of the new weight's sign, and that sign differs from the sign of
\* the existing weight; with equal signs no Like and no Dislike is posted.
C4_VoteOnlyOnSignChange ==
    call.op = "SaveVote"
    => \A i \in DOMAIN call.requests :
            IsVotePost(call.requests[i])
            => /\ Sgn(call.v.Weight) # Sgn(call.exists.Weight)
               /\ call.requests[i].act.Type =
                      IF call.v.Weight > 0 THEN "Like" ELSE "Dislike"
               /\ call.v.Weight # 0
               /\ call.requests[i].act.Object = loadAPItem(call.v.Item).ID

\* an upvote on an item the submitter has already upvoted ran to its end
\* and posted no Like
C4_Witness ==
    /\ call.op = "SaveVote"
    /\ call.v.Weight > 0
    /\ call.exists.Weight > 0
    /\ ~call.panic
    /\ Len(call.requests) = 3
    /\ \A i \in DOMAIN call.requests : ~IsVotePost(call.requests[i])

\* the running SaveVote posted the Undo of the existing vote and the hub
\* answered it with a status that is no success
UndoRejected ==
    /\ call.op = "SaveVote"
    /\ call.exists.hasMeta
    /\ Len(call.requests) >= 2
    /\ IsUndoPost(call.requests[2])
    /\ call.requests[2].status \notin {0, 200, 201}

\* C24: when the hub rejects the Undo of the existing vote, SaveVote logs
\* the rejection and goes on: it posts the Like or Dislike of a vote that
\* changes side, and the rejection is not the error it returns.
C24_RejectedUndoIsLogged ==
    UndoRejected =>
        /\ ~call.panic
        /\ Len(call.requests) = 3
        /\ call.requests[3].method = "POST"
        /\ Sgn(call.v.Weight) = -Sgn(call.exists.Weight)
             => IsVotePost(call.requests[3])
        /\ Accepted(call.out) => call.err = ErrNil
        /\ \E k \in DOMAIN call.logged :
             call.logged[k] = "unable to undo previous vote"

\* the POSTs of the running operation
Posts == { i \in DOMAIN call.requests : call.requests[i].method = "POST" }

\* C25: a SaveVote of weight zero for a submitter whose vote on the item is
\* in effect posts exactly one activity, the Undo of that vote, and no Like
\* and no Dislike.
C25_RetractionPostsOneUndo ==
    (/\ call.op = "SaveVote"
     /\ call.v.Weight = 0
     /\ call.exists.hasMeta
     /\ call.exists.Weight # 0
     /\ ~call.panic)
    => /\ Cardinality(Posts) = 1
       /\ \A i \in Posts :
            /\ IsUndoPost(call.requests[i])
            /\ call.requests[i].act.Object = call.exists.IRI

\* the running SaveItem ran to its end and returned no error
ItemSaved ==
    /\ call.op = "SaveItem"
    /\ ~call.panic
    /\ call.err = ErrNil

\* C29: a SaveItem that succeeds has posted exactly one activity: a Delete
\* of the id of the wire object for a deleted item, a Create carrying the
\* wire object when that has no id, an Update carrying it otherwise; as the
\* account of the repository to its outbox, or as the anonymous actor to
\* the inbox of the hub when the repository has no account.
C29_SaveItemPostsOneActivity ==
    ItemSaved =>
        /\ Len(call.requests) = 1
        /\ call.requests[1].method = "POST"
        /\ call.requests[1].act.Type =
              IF call.it.deleted THEN "Delete"
              ELSE IF Len(loadAPItem(call.it).ID) = 0 THEN "Create"
              ELSE "Update"
        /\ IF call.it.deleted
           THEN call.requests[1].act.Object = loadAPItem(call.it).ID
           ELSE call.requests[1].act.Object = loadAPItem(call.it)
        /\ IF rAccount.nil
           THEN /\ call.requests[1].url = Append(BaseURL, "inbox")
                /\ call.requests[1].act.Actor = PublicNS
           ELSE /\ call.requests[1].url = ActorsURL \o <<rAccount.Hash, "outbox">>
                /\ call.requests[1].act.Actor = Append(ActorsURL, rAccount.Hash)

\* a new item was created through the outbox of the acting account
C29_Witness ==
    /\ ItemSaved
    /\ Accepted(call.out)
    /\ rAccount = AccountA
    /\ ~call.it.deleted
    /\ call.requests[1].act.Type = "Create"
    /\ call.requests[1].url = ActorsURL \o <<AccountA.Hash, "outbox">>

\* a stored item was deleted through the inbox of the hub, by nobody
C29_WitnessAnonymous ==
    /\ ItemSaved
    /\ Accepted(call.out)
    /\ rAccount.nil
    /\ call.requests[1].act = Activity("Delete", PublicNS, Item1.ID)
    /\ call.requests[1].url = Append(BaseURL, "inbox")

\* the running save is of a deleted entity whose wire object has no id
DeletesWithoutID ==
    \/ call.op = "SaveItem" /\ call.it.deleted /\ Len(loadAPItem(call.it).ID) = 0
    \/ call.op = "SaveAccount" /\ call.a.deleted /\ Len(loadAPPerson(call.a).ID) = 0

\* C30: SaveItem and SaveAccount of a deleted entity whose wire object has
\* no id return a not-found error, send no request and do not panic.
C30_DeleteWithoutIDIsNotFound ==
    DeletesWithoutID =>
        /\ ~call.panic
        /\ call.err.kind = "notfound"
        /\ call.requests = <<>>

\* the vote's submitter or item is missing, has no metadata or has an
\* empty remote id
LacksRemoteID(v) ==
    \/ v.SubmittedBy.nil \/ ~v.SubmittedBy.hasMeta \/ Len(v.SubmittedBy.ID) = 0
    \/ v.Item.nil \/ ~v.Item.hasMeta \/ Len(v.Item.ID) = 0

\* C5: a SaveVote whose submitter or item lacks a remote id returns a
\* validation error and issues no request.
C5_NoRemoteCallWithoutRemoteID ==
    (call.op = "SaveVote" /\ LacksRemoteID(call.v))
    => call.err.kind = "invalid" /\ call.requests = <<>>

\* C6: when the final POST of SaveVote is answered 200 or 201 the returned
\* vote carries the activity id the hub assigned; for any other status the
\* returned error is handlerErrorResponse of the body.
C6_ReturnedVoteCarriesAssignedID ==
    (call.op = "SaveVote" /\ FinalAnswered)
    => IF call.out.status \in {200, 201}
       THEN call.ret.hasMeta /\ call.ret.IRI = call.assigned
       ELSE call.err = handlerErrorResponse(
                           Body(call.out.parses, call.out.errors, NilIRI))

\* C7: SaveVote, SaveItem and SaveAccount return an error for every answer
\* whose status is not 2xx: the status and message of the first error of
\* the envelope when it parses and lists one, some error otherwise.
C7_FailedResponseIsError ==
    (FinalAnswered /\ ~call.panic
     /\ ~(call.out.status >= 200 /\ call.out.status <= 299))
    => /\ call.err # ErrNil
       /\ (call.out.parses /\ call.out.errors # <<>>)
          => call.err = Err("http", call.out.errors[1].Code,
                            call.out.errors[1].Message)

\* C8: a caller that passed a valid, logged-in account to WithAccount has
\* every request of its saves signed with that account's credentials and
\* attributed to that account, whatever the other caller does in between.
C8_OwnCredentials ==
    (/\ call.op \in {"SaveItem", "SaveAccount"}
     /\ callers.who \in Callers
     /\ ~callers.s2s[callers.who]
     /\ IsValid(callers.acct[callers.who])
     /\ IsLogged(callers.acct[callers.who]))
    => \A i \in DOMAIN call.requests :
            /\ call.requests[i].auth.by = callers.acct[callers.who].Hash
            /\ call.requests[i].act.Actor =
                   loadAPPerson(callers.acct[callers.who]).ID

\* C9: once the most recent WithAccount was given an account that is not
\* valid or not logged in, every request of a save is unsigned and
\* attributed to the anonymous actor.
C9_UnsignedAfterInvalidAccount ==
    (/\ call.op \in {"SaveItem", "SaveAccount"}
     /\ callers.via = "WithAccount"
     /\ (~IsValid(callers.last) \/ ~IsLogged(callers.last)))
    => \A i \in DOMAIN call.requests :
            /\ call.requests[i].auth = NoAuth
            /\ call.requests[i].act.Actor = anonymousPerson(BaseURL).ID

\* the weight of a raw record, by the type of the activity
RawWeight(act) ==
    CASE act.Type = "Like" -> 1 [] act.Type = "Dislike" -> -1 [] OTHER -> 0

RECURSIVE SumWeights(_, _)
SumWeights(items, hash) ==
    IF items = <<>> THEN 0
    ELSE (IF LastSegment(Head(items).Actor) = hash
          THEN RawWeight(Head(items)) ELSE 0)
         + SumWeights(Tail(items), hash)

FirstIndex(items, hash) ==
    CHOOSE i \in DOMAIN items :
        /\ LastSegment(items[i].Actor) = hash
        /\ \A j \in 1..(i - 1) : LastSegment(items[j].Actor) # hash

\* C10: loadVotesCollection returns one record per distinct submitter of
\* the raw records, in the order of their first appearance, each with the
\* sum of the weights of all raw records of that submitter.
C10_FoldOnePerActor ==
    fold.done =>
        LET hashes == { LastSegment(fold.items[k].Actor) : k \in DOMAIN fold.items }
        IN  /\ Len(fold.votes) = Cardinality(hashes)
            /\ \A i \in DOMAIN fold.votes :
                    /\ fold.votes[i].SubmittedBy.Hash \in hashes
                    /\ fold.votes[i].Weight =
                           SumWeights(fold.items, fold.votes[i].SubmittedBy.Hash)
                    /\ fold.votes[i].IRI =
                           fold.items[FirstIndex(fold.items,
                                        fold.votes[i].SubmittedBy.Hash)].ID
            /\ \A i, j \in DOMAIN fold.votes :
                    i < j => FirstIndex(fold.items, fold.votes[i].SubmittedBy.Hash)
                             < FirstIndex(fold.items, fold.votes[j].SubmittedBy.Hash)

\* three Likes of one actor were folded into one record of weight 3
C10_Witness ==
    /\ fold.done
    /\ Len(fold.items) = 3
    /\ Len(fold.votes) = 1
    /\ fold.votes[1].Weight = 3

-----------------------------------------------------------------------------
(* The load operations: filters, GET requests and their answers.           *)

\* app.Filters{}: the filter fields the load operations read or write
NoFilters ==
    [Type |-> <<>>, FollowedBy |-> <<>>, InReplyTo |-> <<>>, Context |-> <<>>,
     Deleted |-> <<>>, Federated |-> <<>>, IRI |-> NilIRI, Key |-> <<>>,
     Handle |-> <<>>, AttributedTo |-> <<>>, ItemKey |-> <<>>]

\* a GET request: the path of the URL, the filters qstring marshals into
\* its query, and the answer it got
Get(path, f) ==
    [method |-> "GET", path |-> path, query |-> f, answer |-> "none"]
Answered(req, ans) == [req EXCEPT !.answer = ans]

\* the answer to a GET: a transport error, or a status with a body that
\* parses into the items of an ordered collection or does not parse
\* total is the TotalItems of the collection
Answer(kind, status, parses, items) ==
    [kind |-> kind, status |-> status, parses |-> parses, items |-> items,
     total |-> Len(items)]
GetFailed == Answer("err", 0, FALSE, <<>>)
Collection(items) == Answer("http", 200, TRUE, items)
\* a page of a collection that holds more items than the page
PagedCollection(items, total) == [Collection(items) EXCEPT !.total = total]
\* the answers that are not a readable collection
BadAnswers ==
    { GetFailed, Answer("http", 404, TRUE, <<>>), Answer("http", 500, FALSE, <<>>),
      Answer("http", 200, FALSE, <<>>) }
Failed(ans) == ans \in BadAnswers

\* the error a load operation returns for an answer that is not a readable
\* collection; msg is the message of its status check
LoadError(ans, msg) ==
    CASE ans.kind = "err" -> Err("transport", 0, "get failed")
      [] ans.status # 200 -> Err("generic", 0, msg)
      [] ~ans.parses -> Err("json", 0, "unable to unmarshal")
      [] OTHER -> ErrNil

-----------------------------------------------------------------------------
(* LoadVotes.  A slice is its backing array and its length.                *)

\* votes = append(votes[:i], votes[i+1:]...) for the element at position k
\* (1-based): the slice expression votes[k:] panics when k exceeds the
\* length; otherwise the tail is copied one place down inside the array.
RemoveAt(arr, n, k) ==
    IF k > n THEN [arr |-> arr, n |-> n, panic |-> TRUE]
    ELSE [arr |-> [j \in DOMAIN arr |->
                        IF j >= k /\ j < n THEN arr[j + 1] ELSE arr[j]],
          n |-> n - 1, panic |-> FALSE]

\* the inner loop for one undo: range holds the slice header it started
\* with (n0 elements) and reads each element from the shared array; r is
\* the slice so far
RECURSIVE UndoLoop(_, _, _, _)
UndoLoop(r, original, k, n0) ==
    IF r.panic \/ k > n0 THEN r
    ELSE IF ~r.arr[k].hasMeta \/ Len(r.arr[k].IRI) = 0
         THEN UndoLoop(r, original, k + 1, n0)
    ELSE IF r.arr[k].IRI = original
         THEN UndoLoop(RemoveAt(r.arr, r.n, k), original, k + 1, n0)
    ELSE UndoLoop(r, original, k + 1, n0)

\* the loop over the undos
RECURSIVE RemoveUndone(_, _)
RemoveUndone(r, undos) ==
    IF r.panic \/ undos = <<>> THEN r
    ELSE IF ~Head(undos).hasMeta \/ Len(Head(undos).OriginalIRI) = 0
         THEN RemoveUndone(r, Tail(undos))
    ELSE RemoveUndone(UndoLoop(r, Head(undos).OriginalIRI, 1, r.n), Tail(undos))

\* the first loop of the reconciliation, one record: a record that
\* converts goes to the votes (nonzero weight) or to the undos that name an
\* activity
SplitVote(s, res) ==
    IF res[2] # ErrNil THEN s
    ELSE IF res[1].Weight # 0
         THEN [s EXCEPT !.votes = Append(@, res[1])]
    ELSE IF ~res[1].hasMeta \/ Len(res[1].OriginalIRI) = 0 THEN s
    ELSE [s EXCEPT !.undos = Append(@, res[1])]

RECURSIVE SplitVotes(_, _)
SplitVotes(items, s) ==
    IF items = <<>> THEN s
    ELSE SplitVotes(Tail(items),
                    SplitVote(s, VoteFromActivityPub(NoVote, Head(items))))

\* the votes left in the slice
VotesLeft(r) == [votes |-> SubSeq(r.arr, 1, r.n), panic |-> r.panic]

RemoveUndos(s) ==
    VotesLeft(RemoveUndone([arr |-> s.votes, n |-> Len(s.votes), panic |-> FALSE],
                           s.undos))

\* the callback LoadVotes hands to OnOrderedCollection
ReconcileVotes(items) ==
    RemoveUndos(SplitVotes(items, [votes |-> <<>>, undos |-> <<>>]))

\* LoadVotesURL without the outbox of the one actor
LoadVotesInbox(f) ==
    Get(Append(BaseURL, "inbox"), [f EXCEPT !.Type = <<"Like", "Dislike", "Undo">>])

\* the URL LoadVotes fetches
LoadVotesURL(f) ==
    LET g == [f EXCEPT !.Type = <<"Like", "Dislike", "Undo">>]
    IN  IF Len(g.AttributedTo) = 1
        THEN Get(BaseURL \o <<"actors", g.AttributedTo[1], "outbox">>,
                 [g EXCEPT !.AttributedTo = <<>>])
        ELSE Get(Append(BaseURL, "inbox"), g)

LoadedVotesResult(req, ans, r) ==
    [requests |-> <<req>>, ret |-> r.votes, count |-> ans.total,
     err |-> ErrNil, panic |-> r.panic]

\* LoadVotes: the requests it sends, the votes, the count and the error it
\* returns, and whether it panics
LoadVotesResult(f, ans) ==
    IF Failed(ans)
    THEN [requests |-> <<Answered(LoadVotesURL(f), ans)>>, ret |-> <<>>,
          count |-> 0,
          err |-> LoadError(ans, "unable to load votes from the API"),
          panic |-> FALSE]
    ELSE LoadedVotesResult(Answered(LoadVotesURL(f), ans), ans,
                           ReconcileVotes(ans.items))

LoadVotes(f, ans) ==
    /\ call = Idle
    /\ \E res \in {LoadVotesResult(f, ans)} :
        call' = [op |-> "LoadVotes", f |-> f, answers |-> <<ans>>,
                 requests |-> res.requests, ret |-> res.ret,
                 count |-> res.count, err |-> res.err, panic |-> res.panic]
    /\ UNCHANGED <<rAccount, signFn, hubLog, hubFault, callers, fold, pure>>

\* the records of a fetched activity collection: a Like, a Dislike, an
\* activity that is no vote, and the Undos of the first MaxID activities
VoteRecords ==
    { Activity(t, AccountA.ID, Item1.ID) : t \in {"Like", "Dislike", "Create"} }
    \cup { Activity("Undo", AccountA.ID, ActivityID(u)) : u \in 1..MaxID }

\* the collections of at most MaxVotes records: the k-th record has the
\* k-th activity id, or is listed again under the id of the record before
VoteCollections ==
    UNION { { [k \in 1..n |->
                [recs[k] EXCEPT !.ID =
                    ActivityID(IF again[k] /\ k > 1 THEN k - 1 ELSE k)]] :
                recs \in [1..n -> VoteRecords], again \in [1..n -> BOOLEAN] } :
            n \in 0..MaxVotes }

\* the votes the hub holds: a Like, or a Like and its Undo
LikeOnly ==
    <<[Activity("Like", AccountA.ID, Item1.ID) EXCEPT !.ID = ActivityID(1)]>>
LikeUndone ==
    Append(LikeOnly,
           [Activity("Undo", AccountA.ID, ActivityID(1)) EXCEPT !.ID = ActivityID(2)])

\* the filters and answers of the LoadVotes calls: every filter with every
\* answer that is no collection, and every collection
VotesCalls ==
    ({ NoFilters, [NoFilters EXCEPT !.AttributedTo = <<AccountA.Hash>>] }
        \X (BadAnswers \cup {Collection(<<>>)}))
    \cup ({ [NoFilters EXCEPT !.AttributedTo = <<AccountB.Hash>>,
                              !.Type = <<"Create">>],
            [NoFilters EXCEPT !.AttributedTo = <<AccountA.Hash, AccountB.Hash>>],
            [NoFilters EXCEPT !.ItemKey = <<Item1.Hash>>, !.Type = <<"Create">>] }
          \X { PagedCollection(LikeOnly, 7), PagedCollection(LikeUndone, 7) })
    \cup ({NoFilters} \X { Collection(c) : c \in VoteCollections })

DoLoadVotes ==
    /\ call = Idle
    /\ \E c \in VotesCalls : LoadVotes(c[1], c[2])

-----------------------------------------------------------------------------
(* LoadAccounts, LoadAccount, LoadItems and their follow-up passes.        *)

\* hashesUnique that keeps every repetition
hashesAll(a) == a

\* hashesUnique: the hashes without repetitions, in order of first appearance
RECURSIVE hashesUnique(_)
hashesUnique(a) ==
    IF a = <<>> THEN <<>>
    ELSE LET u == hashesUnique(SubSeq(a, 1, Len(a) - 1))
             val == a[Len(a)]
         IN  IF \E i \in DOMAIN u : u[i] = val THEN u ELSE Append(u, val)

\* errors.Annotatef: the error keeps its kind under the added message
Annotate(err, msg) == [err EXCEPT !.msg = msg \o ": " \o @]

\* NotFound that reports no error
NotFoundNil(msg) == ErrNil

\* errors.NotFoundf
NotFound(msg) == Err("notfound", 404, msg)

\* SumScore without the comparison of the hashes
RECURSIVE SumScoreAll(_, _, _)
SumScoreAll(votes, hash, of) ==
    IF votes = <<>> THEN 0
    ELSE Head(votes).Weight + SumScoreAll(Tail(votes), hash, of)

\* the sum of the weights of the votes whose submitter ("SubmittedBy") or
\* item ("Item") has the hash
RECURSIVE SumScore(_, _, _)
SumScore(votes, hash, of) ==
    IF votes = <<>> THEN 0
    ELSE (IF Head(votes)[of].Hash = hash THEN Head(votes).Weight ELSE 0)
         + SumScore(Tail(votes), hash, of)

\* a pass that sent no request
NoPass(ret) == [requests |-> <<>>, ret |-> ret, err |-> ErrNil, panic |-> FALSE]

\* what a votes pass returns for the entries, given the LoadVotes result lv:
\* nothing and the annotated error, or the entries with their scores
VotesPass(entries, lv, of, msg) ==
    IF lv.err # ErrNil
    THEN [requests |-> lv.requests, ret |-> <<>>,
          err |-> Annotate(lv.err, msg), panic |-> lv.panic]
    ELSE [requests |-> lv.requests,
          ret |-> [k \in DOMAIN entries |->
                     [entries[k] EXCEPT !.Score =
                         @ + SumScore(lv.ret, entries[k].Hash, of)]],
          err |-> ErrNil, panic |-> lv.panic]

\* loadAccountsVotes
loadAccountsVotes(accounts, votesAns) ==
    IF Len(accounts) = 0 THEN NoPass(accounts)
    ELSE VotesPass(accounts,
                   LoadVotesResult([NoFilters EXCEPT !.AttributedTo =
                        hashesUnique([k \in DOMAIN accounts |-> accounts[k].Hash])],
                        votesAns),
                   "SubmittedBy", "unable to load accounts votes")

\* Account.FromActivityPub of an actor of a collection
AccountFromObject(o) ==
    [AccountFromIRI(o.ID) EXCEPT !.Handle = o.Handle]

\* the accounts of the entries of a collection that are actors
RECURSIVE AccountsOf(_)
AccountsOf(items) ==
    IF items = <<>> THEN <<>>
    ELSE IF Head(items).Type = "Person"
         THEN <<AccountFromObject(Head(items))>> \o AccountsOf(Tail(items))
         ELSE AccountsOf(Tail(items))

LoadAccountsURL(f) == Get(Append(ActorsURL, ""), f)

LoadedAccountsResult(req, ans, lv) ==
    [requests |-> <<req>> \o lv.requests, ret |-> lv.ret,
     count |-> ans.total, err |-> ErrNil, panic |-> lv.panic]

\* LoadAccounts: the error of the votes pass is assigned inside the callback
\* and the function returns nil for its error
LoadAccountsResult(f, ans, votesAns) ==
    IF Failed(ans)
    THEN [requests |-> <<Answered(LoadAccountsURL(f), ans)>>, ret |-> <<>>,
          count |-> 0,
          err |-> LoadError(ans, "unable to load accounts from the API"),
          panic |-> FALSE]
    ELSE LoadedAccountsResult(Answered(LoadAccountsURL(f), ans), ans,
                              loadAccountsVotes(AccountsOf(ans.items), votesAns))

\* app.Account{}
ZeroAccount == Account("", "", FALSE, FALSE, FALSE, NilIRI, "", "none")

\* LoadAccount, given the LoadAccounts result la
FirstAccount(f, la) ==
    IF la.err # ErrNil
    THEN [la EXCEPT !.ret = ZeroAccount]
    ELSE IF Len(la.ret) = 0
    THEN [la EXCEPT !.ret = ZeroAccount,
                    !.err = NotFound("account " \o
                                (IF Len(f.Handle) > 0 THEN f.Handle[1]
                                 ELSE IF Len(f.Key) > 0 THEN f.Key[1]
                                 ELSE ""))]
    ELSE [la EXCEPT !.ret = la.ret[1]]

\* LoadAccount
LoadAccountResult(f, ans, votesAns) ==
    FirstAccount(f, LoadAccountsResult(f, ans, votesAns))

\* the key loadItemsAuthors asks for the submitter of an item: "key" with
\* the remote id or the hash, "handle" with the handle, "none"
AuthorKey(by) ==
    IF HasMetadata(by) /\ Len(by.ID) > 0 THEN <<"key", by.ID>>
    ELSE IF Len(by.Hash) > 0 THEN <<"key", by.Hash>>
    ELSE IF Len(by.Handle) > 0 THEN <<"handle", by.Handle>>
    ELSE <<"none", "">>

RECURSIVE AuthorKeys(_, _)
AuthorKeys(items, kind) ==
    IF items = <<>> THEN <<>>
    ELSE LET k == AuthorKey(Head(items).SubmittedBy)
         IN  (IF k[1] = kind THEN <<k[2]>> ELSE <<>>)
             \o AuthorKeys(Tail(items), kind)

AuthorMatches(by, auth) ==
    ~by.nil /\ (by.Hash = auth.Hash \/ by.Handle = auth.Handle)

\* the inner loop of loadItemsAuthors for one item: the first author that
\* matches its submitter or, failing that, its updater ends the loop
RECURSIVE ResolveAuthor(_, _)
ResolveAuthor(it, authors) ==
    IF authors = <<>> THEN it
    ELSE IF AuthorMatches(it.SubmittedBy, Head(authors))
         THEN [it EXCEPT !.SubmittedBy = Head(authors)]
    ELSE IF AuthorMatches(it.UpdatedBy, Head(authors))
         THEN [it EXCEPT !.UpdatedBy = Head(authors)]
    ELSE ResolveAuthor(it, Tail(authors))

\* what loadItemsAuthors returns, given the LoadAccounts result la
AuthorsPass(items, la) ==
    IF la.err # ErrNil
    THEN [requests |-> la.requests, ret |-> <<>>,
          err |-> Annotate(la.err, "unable to load items authors"),
          panic |-> la.panic]
    ELSE [requests |-> la.requests,
          ret |-> [k \in DOMAIN items |-> ResolveAuthor(items[k], la.ret)],
          err |-> ErrNil, panic |-> la.panic]

\* the filters of the accounts request of loadItemsAuthors
AuthorsFilters(items) ==
    [NoFilters EXCEPT !.Key = hashesUnique(AuthorKeys(items, "key")),
                      !.Handle = AuthorKeys(items, "handle")]

AuthorsPassFor(items, fActors, ans, votesAns) ==
    IF Len(fActors.Key) + Len(fActors.Handle) = 0
    THEN [NoPass(<<>>) EXCEPT
             !.err = Err("generic", 0, "unable to load items authors")]
    ELSE AuthorsPass(items, LoadAccountsResult(fActors, ans, votesAns))

\* an item of the list has a nil submitter, which the first loop of
\* loadItemsAuthors dereferences
NilSubmitter(items) == \E k \in DOMAIN items : items[k].SubmittedBy.nil

\* loadItemsAuthors
loadItemsAuthors(items, ans, votesAns) ==
    IF Len(items) = 0 THEN NoPass(<<>>)
    ELSE IF NilSubmitter(items) THEN [NoPass(<<>>) EXCEPT !.panic = TRUE]
    ELSE AuthorsPassFor(items, AuthorsFilters(items), ans, votesAns)

\* loadItemsVotes
loadItemsVotes(items, votesAns) ==
    IF Len(items) = 0 THEN NoPass(items)
    ELSE VotesPass(items,
                   LoadVotesResult([NoFilters EXCEPT !.ItemKey =
                        hashesUnique([k \in DOMAIN items |-> items[k].Hash])],
                        votesAns),
                   "Item", "unable to load items votes")

\* the types LoadItems asks for when a deleted filter is set
ItemTypes == <<"Article", "Audio", "Document", "Image", "Note", "Page", "Video">>

\* the filters LoadItems marshals into the query
LoadItemsFilters(f) ==
    LET f1 == IF Len(f.FollowedBy) > 0 THEN [f EXCEPT !.FollowedBy = <<>>] ELSE f
        f2 == IF \E i \in DOMAIN f1.Federated : ~f1.Federated[i]
              THEN [f1 EXCEPT !.IRI = BaseURL] ELSE f1
    IN  IF Len(f2.Deleted) > 0 THEN [f2 EXCEPT !.Type = ItemTypes] ELSE f2

\* the URL LoadItems fetches
LoadItemsURL(f) ==
    Get(IF Len(f.FollowedBy) > 0
        THEN BaseURL \o <<"actors", f.FollowedBy[1], "inbox">>
        ELSE Append(BaseURL, "objects"),
        LoadItemsFilters(f))

\* Item.FromActivityPub of an entry of a collection: the submitter is the
\* account of the attributedTo IRI, nil for an entry that names none, and
\* the submission time is the published time of the entry
ItemFromObject(o) ==
    [ItemFromIRI(o.ID) EXCEPT
        !.SubmittedBy = IF o.AttributedTo = NilIRI THEN NilRef
                        ELSE AccountFromIRI(o.AttributedTo),
        !.SubmittedAt = o.Published]

RECURSIVE ItemsOf(_)
ItemsOf(items) ==
    IF items = <<>> THEN <<>>
    ELSE IF Head(items).Type \in {"Note", "Article", "Page", "IRI"}
         THEN <<ItemFromObject(Head(items))>> \o ItemsOf(Tail(items))
         ELSE ItemsOf(Tail(items))

\* the result of the two passes, given that of the authors pass a and of
\* the votes pass v
BothPasses(a, v) ==
    IF a.panic THEN a
    ELSE [requests |-> a.requests \o v.requests, ret |-> v.ret,
          err |-> v.err, panic |-> v.panic]

VotesAfterAuthors(a, votesAns) == BothPasses(a, loadItemsVotes(a.ret, votesAns))

\* the two passes as LoadItems runs them: the result and the error of the
\* authors pass are overwritten by those of the votes pass
ItemsPasses(items, authorsAns, authorsVotesAns, votesAns) ==
    VotesAfterAuthors(loadItemsAuthors(items, authorsAns, authorsVotesAns),
                      votesAns)

LoadedItemsResult(req, ans, p) ==
    [requests |-> <<req>> \o p.requests, ret |-> p.ret,
     count |-> ans.total, err |-> p.err, panic |-> p.panic]

\* LoadItems
LoadItemsResult(f, ans, authorsAns, authorsVotesAns, votesAns) ==
    IF Failed(ans)
    THEN [requests |-> <<Answered(LoadItemsURL(f), ans)>>, ret |-> <<>>,
          count |-> 0,
          err |-> LoadError(ans, "unable to load items from the API"),
          panic |-> FALSE]
    ELSE LoadedItemsResult(Answered(LoadItemsURL(f), ans), ans,
                           ItemsPasses(ItemsOf(ans.items), authorsAns,
                                       authorsVotesAns, votesAns))

LoadCall(op, f, answers, res) ==
    [op |-> op, f |-> f, answers |-> answers, requests |-> res.requests,
     ret |-> res.ret, count |-> res.count, err |-> res.err,
     panic |-> res.panic]

LoadAccounts(f, ans, votesAns) ==
    /\ call = Idle
    /\ call' = LoadCall("LoadAccounts", f, <<ans, votesAns>>,
                        LoadAccountsResult(f, ans, votesAns))
    /\ UNCHANGED <<rAccount, signFn, hubLog, hubFault, callers, fold, pure>>

LoadAccount(f, ans, votesAns) ==
    /\ call = Idle
    /\ call' = LoadCall("LoadAccount", f, <<ans, votesAns>>,
                        LoadAccountResult(f, ans, votesAns))
    /\ UNCHANGED <<rAccount, signFn, hubLog, hubFault, callers, fold, pure>>

LoadItems(f, ans, authorsAns, authorsVotesAns, votesAns) ==
    /\ call = Idle
    /\ call' = LoadCall("LoadItems", f,
                        <<ans, authorsAns, authorsVotesAns, votesAns>>,
                        LoadItemsResult(f, ans, authorsAns, authorsVotesAns,
                                        votesAns))
    /\ UNCHANGED <<rAccount, signFn, hubLog, hubFault, callers, fold, pure>>

-----------------------------------------------------------------------------
(* The load operations against answers of every kind.                      *)

Item2 == Item("j1j2j3j4", TRUE, Append(ObjectsURL, "j1j2j3j4"), FALSE)

\* an actor of an accounts collection, an object of an items collection
PersonOf(a) == [Type |-> "Person", ID |-> a.ID, Handle |-> a.Handle]
ObjectOf(i, a) ==
    [Type |-> "Note", ID |-> i.ID, AttributedTo |-> a.ID, Published |-> 1]

\* the entries without a submission time: the bare IRI of an item, and an
\* object that has no published time
StubOf(i) ==
    [Type |-> "IRI", ID |-> i.ID, AttributedTo |-> NilIRI, Published |-> 0]
UndatedOf(i, a) == [ObjectOf(i, a) EXCEPT !.Published = 0]

\* pages that hold such entries
StubPages ==
    { <<StubOf(Item1)>>, <<UndatedOf(Item1, AccountA)>>,
      <<ObjectOf(Item2, AccountA), StubOf(Item1)>>,
      <<ObjectOf(Item2, AccountA), UndatedOf(Item1, AccountB)>> }

AccountCollections ==
    { <<>>, <<PersonOf(AccountA)>>, <<PersonOf(AccountB), PersonOf(AccountA)>>,
      <<ObjectOf(Item1, AccountA)>> }

\* the pages of at most MaxPage objects of two items and two authors
Pages ==
    UNION { [1..n -> { ObjectOf(Item1, AccountA), ObjectOf(Item1, AccountB),
                       ObjectOf(Item2, AccountA) }] :
            n \in 0..MaxPage }

VotesAnswers == { GetFailed, Collection(LikeOnly), Collection(LikeUndone) }
AccountsAnswers == BadAnswers \cup { Collection(c) : c \in AccountCollections }

AccountsFilters ==
    { [NoFilters EXCEPT !.Key = <<AccountA.Hash>>],
      [NoFilters EXCEPT !.Handle = <<AccountA.Handle>>] }

ItemsFilters ==
    { NoFilters,
      [NoFilters EXCEPT !.FollowedBy = <<AccountA.Hash>>],
      [NoFilters EXCEPT !.FollowedBy = <<AccountA.Hash>>,
                        !.InReplyTo = <<Item1.Hash>>, !.Context = <<"0">>,
                        !.Type = <<"Note">>],
      [NoFilters EXCEPT !.Deleted = <<FALSE>>],
      [NoFilters EXCEPT !.Federated = <<FALSE>>] }

\* the answers to the accounts request of the authors pass
AuthorsAnswers ==
    { GetFailed, Collection(<<>>),
      Collection(<<PersonOf(AccountB), PersonOf(AccountA)>>) }

\* the filters and answers of the LoadItems calls: every filter with every
\* answer to the page request that is no page and with one page, and every
\* page with every answer to the follow-up requests
ItemsCalls ==
    (ItemsFilters
        \X (BadAnswers \cup {Collection(<<ObjectOf(Item1, AccountA)>>)})
        \X {Collection(<<PersonOf(AccountA)>>)}
        \X {Collection(LikeOnly)} \X {Collection(LikeOnly)})
    \cup ({NoFilters} \X { Collection(c) : c \in Pages } \X AuthorsAnswers
            \X {GetFailed, Collection(LikeOnly)} \X VotesAnswers)
    \cup ({NoFilters} \X { Collection(c) : c \in StubPages }
            \X {Collection(<<PersonOf(AccountB), PersonOf(AccountA)>>)}
            \X {Collection(LikeOnly)} \X {Collection(LikeOnly)})

DoLoadAccounts ==
    /\ call = Idle
    /\ \E f \in AccountsFilters, ans \in AccountsAnswers, votesAns \in VotesAnswers :
            LoadAccounts(f, ans, votesAns)

DoLoadAccount ==
    /\ call = Idle
    /\ \E f \in AccountsFilters, ans \in AccountsAnswers, votesAns \in VotesAnswers :
            LoadAccount(f, ans, votesAns)

DoLoadItems ==
    /\ call = Idle
    /\ \E c \in ItemsCalls : LoadItems(c[1], c[2], c[3], c[4], c[5])

\* the running pass over the items, with its result
PassCall(op, items, answers, res) ==
    [op |-> op, items |-> items, answers |-> answers,
     requests |-> res.requests, ret |-> res.ret, err |-> res.err,
     panic |-> res.panic]

\* the votes the hub holds on the two items: two votes on the first item
\* and one on the second; a vote that was undone and one that stays; votes
\* on the second item only
VotesOnBoth ==
    << [Activity("Like", AccountA.ID, Item1.ID) EXCEPT !.ID = ActivityID(1)],
       [Activity("Like", AccountB.ID, Item1.ID) EXCEPT !.ID = ActivityID(2)],
       [Activity("Dislike", AccountA.ID, Item2.ID) EXCEPT !.ID = ActivityID(3)] >>
VotesOneUndone ==
    << [Activity("Dislike", AccountA.ID, Item1.ID) EXCEPT !.ID = ActivityID(1)],
       [Activity("Undo", AccountA.ID, ActivityID(1)) EXCEPT !.ID = ActivityID(2)],
       [Activity("Dislike", AccountB.ID, Item1.ID) EXCEPT !.ID = ActivityID(3)] >>
VotesOnSecond ==
    << [Activity("Like", AccountA.ID, Item2.ID) EXCEPT !.ID = ActivityID(1)],
       [Activity("Like", AccountB.ID, Item2.ID) EXCEPT !.ID = ActivityID(2)] >>

ItemVotesAnswers ==
    { GetFailed, Collection(<<>>), Collection(VotesOnBoth),
      Collection(VotesOneUndone), Collection(VotesOnSecond) }

\* the items of the votes pass, with the scores they have before it
ScoredItems ==
    { [i EXCEPT !.Score = s] : i \in {Item1, Item2}, s \in {0, 5} }
ScoredLists ==
    UNION { [1..n -> ScoredItems] : n \in 0..2 }

LoadItemsVotes ==
    /\ call = Idle
    /\ \E items \in ScoredLists, votesAns \in ItemVotesAnswers :
         call' = PassCall("loadItemsVotes", items, <<votesAns>>,
                          loadItemsVotes(items, votesAns))
    /\ UNCHANGED <<rAccount, signFn, hubLog, hubFault, callers, fold, pure>>

\* the items of the authors pass: submitted by the first account, known by
\* its IRI or by its handle alone, and updated by nobody or by the second
\* account
AuthoredItems ==
    { [i EXCEPT !.SubmittedBy = by, !.UpdatedBy = upd] :
        i \in {Item1, Item2},
        by \in { AccountFromIRI(AccountA.ID),
                 Account("", AccountA.Handle, FALSE, FALSE, FALSE, NilIRI, "", "none") },
        upd \in { NilRef, AccountFromIRI(AccountB.ID) } }
AuthoredLists ==
    UNION { [1..n -> AuthoredItems] : n \in 0..2 }

\* the answers to the accounts request: the two accounts in either order,
\* one of them, none, and a failure
AuthoredAnswers ==
    { GetFailed, Collection(<<>>),
      Collection(<<PersonOf(AccountA)>>),
      Collection(<<PersonOf(AccountA), PersonOf(AccountB)>>),
      Collection(<<PersonOf(AccountB), PersonOf(AccountA)>>) }

LoadItemsAuthors ==
    /\ call = Idle
    /\ \E items \in AuthoredLists, ans \in AuthoredAnswers :
         call' = PassCall("loadItemsAuthors", items, <<ans>>,
                          loadItemsAuthors(items, ans, Collection(LikeOnly)))
    /\ UNCHANGED <<rAccount, signFn, hubLog, hubFault, callers, fold, pure>>

NextLoad ==
    \/ DoLoadVotes
    \/ DoLoadAccounts
    \/ DoLoadAccount
    \/ DoLoadItems
    \/ LoadItemsVotes
    \/ LoadItemsAuthors
    \/ Return

SpecLoad == Init /\ [][NextLoad]_vars

-----------------------------------------------------------------------------
(* Properties of the load operations.                                      *)

UniqueIDs(items) ==
    \A i, j \in DOMAIN items : i # j => items[i].ID # items[j].ID

\* the activities an Undo of the collection names
UndoTargets(items) ==
    { items[k].Object : k \in { j \in DOMAIN items : items[j].Type = "Undo" } }

\* the Likes and Dislikes of the collection no Undo names, in their order
RECURSIVE KeptVotes(_, _)
KeptVotes(items, targets) ==
    IF items = <<>> THEN <<>>
    ELSE (IF Head(items).Type \in {"Like", "Dislike"} /\ Head(items).ID \notin targets
          THEN <<Head(items).ID>> ELSE <<>>)
         \o KeptVotes(Tail(items), targets)

LoadedVotes ==
    /\ call.op = "LoadVotes"
    /\ call.answers[1].kind = "http"
    /\ call.answers[1].status = 200
    /\ call.answers[1].parses

\* C11: LoadVotes never panics on a fetched collection, and for a collection
\* whose records have distinct activity ids it returns the Likes and
\* Dislikes that no Undo of the collection names, each once, in their order.
C11_UndoRemovesItsTarget ==
    LoadedVotes
    => /\ ~call.panic
       /\ UniqueIDs(call.answers[1].items)
          => [k \in DOMAIN call.ret |-> call.ret[k].IRI]
             = KeptVotes(call.answers[1].items, UndoTargets(call.answers[1].items))

LoadOps == {"LoadVotes", "LoadAccounts", "LoadAccount", "LoadItems"}

\* C28: LoadVotes sends one GET whose query asks for the Like, Dislike and
\* Undo types and otherwise carries the filters it was given: to the outbox
\* of the actor, without the attributed-to filter, when exactly one
\* attributed-to filter is given, and to the inbox of the hub otherwise;
\* the total it returns for a fetched collection is the collection's.
C28_VotesURLTypesAndTotal ==
    call.op = "LoadVotes" =>
        /\ Len(call.requests) = 1
        /\ call.requests[1].method = "GET"
        /\ call.requests[1].query.Type = <<"Like", "Dislike", "Undo">>
        /\ IF Len(call.f.AttributedTo) = 1
           THEN /\ call.requests[1].path =
                      BaseURL \o <<"actors", call.f.AttributedTo[1], "outbox">>
                /\ call.requests[1].query.AttributedTo = <<>>
           ELSE /\ call.requests[1].path = Append(BaseURL, "inbox")
                /\ call.requests[1].query.AttributedTo = call.f.AttributedTo
        /\ [call.requests[1].query EXCEPT !.Type = <<>>, !.AttributedTo = <<>>]
             = [call.f EXCEPT !.Type = <<>>, !.AttributedTo = <<>>]
        /\ IF Failed(call.answers[1]) THEN call.count = 0
           ELSE call.count = call.answers[1].total

\* the votes of one actor were fetched from the outbox of the actor, on a
\* page of a collection of seven
C28_Witness ==
    /\ call.op = "LoadVotes"
    /\ call.f.AttributedTo = <<AccountB.Hash>>
    /\ call.f.Type = <<"Create">>
    /\ call.requests[1].path = BaseURL \o <<"actors", AccountB.Hash, "outbox">>
    /\ Len(call.ret) = 0
    /\ call.count = 7

\* the votes of two actors were fetched from the inbox of the hub
C28_WitnessInbox ==
    /\ call.op = "LoadVotes"
    /\ Len(call.f.AttributedTo) = 2
    /\ call.requests[1].path = Append(BaseURL, "inbox")
    /\ call.count = 7

\* the requests of the running operation that failed
FailedRequests ==
    { i \in DOMAIN call.requests : Failed(call.requests[i].answer) }

\* C12: a load operation one of whose requests failed returns an error, of
\* the kind of the first failure and never not-found.
C12_RemoteFailureIsReturned ==
    (call.op \in LoadOps /\ ~call.panic /\ FailedRequests # {})
    => /\ call.err # ErrNil
       /\ call.err.kind # "notfound"
       /\ \A i \in FailedRequests :
            (\A j \in FailedRequests : i <= j)
            => call.err.kind = LoadError(call.requests[i].answer, "").kind

\* C13: LoadItems with a followed-by filter fetches the inbox of that actor,
\* asks for the Create type only and sends no reply-to and no context
\* filter.
C13_FollowedByRetargetsToInbox ==
    (call.op = "LoadItems" /\ Len(call.f.FollowedBy) > 0)
    => /\ call.requests[1].path
            = BaseURL \o <<"actors", call.f.FollowedBy[1], "inbox">>
       /\ call.requests[1].query.Type = <<"Create">>
       /\ call.requests[1].query.InReplyTo = <<>>
       /\ call.requests[1].query.Context = <<>>

NoRepeats(s) == \A i, j \in DOMAIN s : i # j => s[i] # s[j]

\* the requests of the running operation that fetch the accounts collection,
\* and those that fetch votes by item key
AccountsRequests ==
    { i \in DOMAIN call.requests : call.requests[i].path = Append(ActorsURL, "") }
ItemVotesRequests ==
    { i \in DOMAIN call.requests : call.requests[i].query.ItemKey # <<>> }

\* C14: however many entries the page has, LoadItems sends at most four
\* requests: the page, at most one accounts request whose keys are not
\* repeated (with the one votes request of LoadAccounts), and at most one
\* votes request whose item keys are not repeated and cover the page.
C14_ConstantRequestsPerPage ==
    call.op = "LoadItems"
    => /\ Len(call.requests) <= 4
       /\ Cardinality(AccountsRequests) <= 1
       /\ Cardinality(ItemVotesRequests) <= 1
       /\ \A i \in AccountsRequests : NoRepeats(call.requests[i].query.Key)
       /\ \A i \in ItemVotesRequests :
            /\ NoRepeats(call.requests[i].query.ItemKey)
            /\ \A k \in DOMAIN call.ret :
                \E j \in DOMAIN call.requests[i].query.ItemKey :
                    call.requests[i].query.ItemKey[j] = call.ret[k].Hash

\* a page of three entries with a repeated author and a repeated item was
\* loaded with four requests
C14_Witness ==
    /\ call.op = "LoadItems"
    /\ call.err = ErrNil
    /\ Len(call.ret) >= 3
    /\ Len(call.requests) = 4
    /\ call.ret[1].Hash = call.ret[2].Hash
    /\ call.ret[1].SubmittedBy.Hash = call.ret[3].SubmittedBy.Hash
    /\ call.ret[1].Hash # call.ret[3].Hash

C15_WitnessEmpty ==
    /\ call.op = "LoadAccount"
    /\ FailedRequests = {}
    /\ call.answers[1].kind = "http"
    /\ call.answers[1].items = <<>>
    /\ call.err.kind = "notfound"

\* the entries of the fetched page that have no submission time
StubEntries ==
    { k \in DOMAIN call.answers[1].items :
        call.answers[1].items[k].Published = 0 }

\* the follow-up requests that fetch the object of the entry by its key
KeyedFetches(entry) ==
    { n \in 2..Len(call.requests) :
        \/ call.requests[n].path = entry.ID
        \/ /\ call.requests[n].path = ObjectsURL
           /\ \E j \in DOMAIN call.requests[n].query.Key :
                 call.requests[n].query.Key[j] = LastSegment(entry.ID) }

\* C23: when LoadItems has fetched a page, every entry of the page without
\* a submission time was followed by a keyed fetch of its object before the
\* call returned, and no item is returned without its submission time.
C23_StubsFetchedBeforeReturn ==
    (call.op = "LoadItems" /\ ~Failed(call.answers[1])) =>
        /\ ~call.panic
        /\ \A k \in StubEntries : KeyedFetches(call.answers[1].items[k]) # {}
        /\ \A k \in DOMAIN call.ret : call.ret[k].SubmittedAt # 0

\* the sum of the weights of the Likes and Dislikes of the collection on
\* the item of the hash that no Undo of the collection names
RECURSIVE NetWeight(_, _, _)
NetWeight(items, targets, hash) ==
    IF items = <<>> THEN 0
    ELSE (IF /\ Head(items).Type \in {"Like", "Dislike"}
             /\ Head(items).ID \notin targets
             /\ LastSegment(Head(items).Object) = hash
          THEN RawWeight(Head(items)) ELSE 0)
         + NetWeight(Tail(items), targets, hash)

\* the votes pass over a list of items ran to its end
ItemsVotesPassed ==
    /\ call.op = "loadItemsVotes"
    /\ call.items # <<>>
    /\ ~call.panic
    /\ call.err = ErrNil

\* C26: after loadItemsVotes the items are those it was given, in their
\* order, and the score of each is its score before plus the weights of the
\* votes on the item of its hash that were not undone.
C26_ScoreAddsVotesOfItem ==
    ItemsVotesPassed =>
        /\ Len(call.ret) = Len(call.items)
        /\ \A k \in DOMAIN call.items :
            call.ret[k] =
                [call.items[k] EXCEPT !.Score =
                    @ + NetWeight(call.answers[1].items,
                                  UndoTargets(call.answers[1].items),
                                  call.items[k].Hash)]

\* two items with scores were passed with two votes on the first and one on
\* the second
C26_Witness ==
    /\ ItemsVotesPassed
    /\ call.answers[1].items = VotesOnBoth
    /\ Len(call.items) = 2
    /\ call.items[1].Hash = Item1.Hash /\ call.items[1].Score = 5
    /\ call.items[2].Hash = Item2.Hash /\ call.items[2].Score = 0
    /\ call.ret[1].Score = 7
    /\ call.ret[2].Score = -1

\* an undone vote on the item was left out of its score
C26_WitnessUndone ==
    /\ ItemsVotesPassed
    /\ call.answers[1].items = VotesOneUndone
    /\ call.items[1].Hash = Item1.Hash
    /\ call.ret[1].Score = call.items[1].Score - 1

\* the account matches the submitter or updater by hash or by handle
MatchesAuthor(by, auth) ==
    ~by.nil /\ (by.Hash = auth.Hash \/ by.Handle = auth.Handle)

\* the accounts of the fetched collection that match
MatchingAuthors(by) ==
    { a \in { AccountFromObject(call.answers[1].items[k]) :
                k \in DOMAIN call.answers[1].items } : MatchesAuthor(by, a) }

\* by is one of the accounts, with whatever score it was loaded with
ResolvedTo(by, accounts) ==
    ~by.nil /\ [by EXCEPT !.Score = 0] \in accounts

\* C27: after loadItemsAuthors the items are those it was given, in their
\* order; the submitter of an item that matches a fetched account is that
\* account, and so is the updater of an item that matches one.
C27_AuthorsResolved ==
    (call.op = "loadItemsAuthors" /\ ~call.panic /\ call.err = ErrNil) =>
        /\ Len(call.ret) = Len(call.items)
        /\ \A k \in DOMAIN call.items :
            /\ call.ret[k].Hash = call.items[k].Hash
            /\ MatchingAuthors(call.items[k].SubmittedBy) # {}
                 => ResolvedTo(call.ret[k].SubmittedBy,
                               MatchingAuthors(call.items[k].SubmittedBy))
            /\ MatchingAuthors(call.items[k].UpdatedBy) # {}
                 => ResolvedTo(call.ret[k].UpdatedBy,
                               MatchingAuthors(call.items[k].UpdatedBy))

-----------------------------------------------------------------------------
(* The conversions to wire objects, applied to items and accounts of every *)
(* kind.                                                                   *)

\* the bodies: empty, one word, and the word counts around WordLimit,
\* joined by a space, a newline or a carriage return and newline
Bodies ==
    { Data(n, sep) : n \in {0, 1} \cup (WordLimit - Near)..(WordLimit + Near),
                     sep \in {" ", "\n", "\r\n"} }

\* an item of the thread without a hash
NoHashItem == Item("", FALSE, NilIRI, FALSE)

ConvItems ==
    { [i EXCEPT !.deleted = del, !.MimeType = mime, !.Data = data,
                !.UpdatedAt = 7, !.Parent = par, !.OP = op] :
        i \in {Item1, Item("k1k2k3k4", FALSE, NilIRI, FALSE)},
        del \in BOOLEAN,
        mime \in {MimeTypeURL, MimeTypeMarkdown, MimeTypeText, MimeTypeHTML},
        data \in Bodies,
        par \in {NilRef, Item1, NoHashItem},
        op \in {NilRef, Item1, Item2} }

ConvAccounts ==
    { AccountA, AccountB, AccountGuest, AccountFed, AnonymousAccount,
      [AccountFed EXCEPT !.Hash = "f1b2"],
      [AccountFed EXCEPT !.InboxIRI = NilIRI] }

\* the items BuildObjectIDFromItem is called for: with and without a hash,
\* with and without a remote id, and a hash that needs escaping
ObjectIDItems ==
    { Item1, NoHashItem,
      Item("k1k2k3k4", FALSE, NilIRI, FALSE),
      Item("m1m2m3m4", TRUE, NilIRI, FALSE),
      Item("r1r2r3r4", TRUE, <<"http://remote.example", "notes", "9">>, FALSE),
      Item("", TRUE, <<"http://remote.example", "notes", "9">>, FALSE),
      Item("a/b c#d?", FALSE, NilIRI, FALSE) }

\* the collection objects BuildCollectionID is called with
CollectionKinds == {"Inbox", "Outbox", "Liked", "Followers", "Following"}

CollectionIDCalls ==
    { <<a, k>> : a \in {AccountA, AccountB, AccountFed, AnonymousAccount,
                        ZeroAccount},
                 k \in CollectionKinds }

InitConv ==
    /\ rAccount = NilAccount
    /\ signFn = NoSignFn
    /\ hubLog = <<>>
    /\ hubFault = FALSE
    /\ call = Idle
    /\ callers = NoCallers
    /\ fold = [items |-> <<>>, votes |-> <<>>, done |-> FALSE]
    /\ pure \in { [op |-> "loadAPItem", in |-> i, done |-> FALSE] : i \in ConvItems }
            \cup { [op |-> "loadAPPerson", in |-> a, done |-> FALSE] : a \in ConvAccounts }
            \cup { [op |-> "BuildObjectIDFromItem", in |-> i, done |-> FALSE,
                    again |-> FALSE] : i \in ObjectIDItems }
            \cup { [op |-> "BuildCollectionID", in |-> c[1], kind |-> c[2],
                    done |-> FALSE] : c \in CollectionIDCalls }

LoadAPItem ==
    /\ pure.op = "loadAPItem"
    /\ ~pure.done
    /\ pure' = [op |-> pure.op, in |-> pure.in, done |-> TRUE,
                out |-> loadAPItem(pure.in)]
    /\ UNCHANGED <<rAccount, signFn, hubLog, hubFault, call, callers, fold>>

LoadAPPerson ==
    /\ pure.op = "loadAPPerson"
    /\ ~pure.done
    /\ pure' = [op |-> pure.op, in |-> pure.in, done |-> TRUE,
                out |-> loadAPPerson(pure.in)]
    /\ UNCHANGED <<rAccount, signFn, hubLog, hubFault, call, callers, fold>>

\* a call of BuildObjectIDFromItem
BuildObjectID ==
    /\ pure.op = "BuildObjectIDFromItem"
    /\ ~pure.done
    /\ pure' = [op |-> pure.op, in |-> pure.in, done |-> TRUE, again |-> FALSE,
                out |-> BuildObjectIDFromItem(pure.in)]
    /\ UNCHANGED <<rAccount, signFn, hubLog, hubFault, call, callers, fold>>

\* the item with its remote id set from the result of a call
WithRemoteID(i, id) == [i EXCEPT !.hasMeta = TRUE, !.ID = id]

\* a second call, for the item whose remote id was set from the result of
\* the first
RebuildObjectID ==
    /\ pure.op = "BuildObjectIDFromItem"
    /\ pure.done
    /\ ~pure.again
    /\ pure.out[2]
    /\ pure' = [op |-> pure.op, in |-> pure.in, done |-> TRUE, again |-> TRUE,
                out |-> pure.out,
                out2 |-> BuildObjectIDFromItem(WithRemoteID(pure.in, pure.out[1]))]
    /\ UNCHANGED <<rAccount, signFn, hubLog, hubFault, call, callers, fold>>

\* a call of BuildCollectionID
CallBuildCollectionID ==
    /\ pure.op = "BuildCollectionID"
    /\ ~pure.done
    /\ pure' = [op |-> pure.op, in |-> pure.in, kind |-> pure.kind,
                done |-> TRUE, out |-> BuildCollectionID(pure.in, pure.kind)]
    /\ UNCHANGED <<rAccount, signFn, hubLog, hubFault, call, callers, fold>>

NextConv ==
    \/ LoadAPItem
    \/ LoadAPPerson
    \/ BuildObjectID
    \/ RebuildObjectID
    \/ CallBuildCollectionID

SpecConv == InitConv /\ [][NextConv]_vars

-----------------------------------------------------------------------------
(* Properties of the conversions.                                          *)

ConvertedItem == pure.op = "loadAPItem" /\ pure.done
ConvertedPerson == pure.op = "loadAPPerson" /\ pure.done

\* C16: a live link item maps to a Page whose URL is the raw data; any other
\* live item maps to an Article when its body has more than WordLimit
\* whitespace-separated words and to a Note otherwise; a markdown item with
\* a body has the raw source and the rendered content set.
C16_TypeByContentAndLength ==
    (ConvertedItem /\ ~pure.in.deleted)
    => /\ pure.in.MimeType = MimeTypeURL
          => pure.out.Type = "Page" /\ pure.out.URL = DataURL(pure.in.Data)
       /\ pure.in.MimeType # MimeTypeURL
          => pure.out.Type =
                IF pure.in.Data.words > WordLimit THEN "Article" ELSE "Note"
       /\ (pure.in.MimeType = MimeTypeMarkdown /\ pure.in.Data # NoData)
          => /\ pure.out.Source = Raw(pure.in.Data)
             /\ pure.out.Content = Markdown(pure.in.Data)

\* C17: a deleted item maps to a Tombstone with the type of the live item
\* as former type and the update time as deletion time; its reply-to
\* collection holds the id of the parent, its context is the id of the
\* thread root, and no id is listed twice.
C17_TombstoneKeepsTypeAndThread ==
    (ConvertedItem /\ pure.in.deleted)
    => /\ pure.out.Type = "Tombstone"
       /\ pure.out.FormerType = loadAPItem([pure.in EXCEPT !.deleted = FALSE]).Type
       /\ pure.out.Deleted = pure.in.UpdatedAt
       /\ pure.out.ID = BuildObjectIDFromItem(pure.in)[1]
       /\ (~pure.in.Parent.nil /\ Len(pure.in.Parent.Hash) > 0)
          => pure.out.InReplyTo = <<pure.in.Parent.ID>>
       /\ (~pure.in.OP.nil /\ Len(pure.in.OP.Hash) > 0)
          => pure.out.Context = pure.in.OP.ID
       /\ NoRepeats(pure.out.InReplyTo)

\* a deleted long item with a parent and another thread root became a
\* Tombstone of a former Article
C17_Witness ==
    /\ ConvertedItem
    /\ pure.in.deleted
    /\ pure.out.FormerType = "Article"
    /\ pure.out.Deleted = 7
    /\ pure.out.InReplyTo = <<Item1.ID>>
    /\ pure.out.Context = Item2.ID

\* the ids the reply-to chain of an item should hold: the parent, then the
\* thread root when it is another item
ReplyChain(item) ==
    LET par == IF item.Parent.nil THEN NilIRI
               ELSE BuildObjectIDFromItem(item.Parent)[1]
        root == IF item.OP.nil THEN NilIRI
                ELSE BuildObjectIDFromItem(item.OP)[1]
    IN  (IF par # NilIRI THEN <<par>> ELSE <<>>)
        \o (IF root # NilIRI /\ root # par THEN <<root>> ELSE <<>>)

\* C18: the reply-to chain of the object of a live item is the id of the
\* parent followed by the id of the thread root when that is another item.
C18_ReplyChainParentThenRoot ==
    (ConvertedItem /\ ~pure.in.deleted)
    => pure.out.InReplyTo = ReplyChain(pure.in)

\* C19: the actor of a federated account has the stored remote id as its id
\* and the stored inbox, outbox, liked, followers, following and URL IRIs.
C19_FederatedPassThrough ==
    (ConvertedPerson /\ IsFederated(pure.in))
    => /\ pure.out.ID = pure.in.ID
       /\ pure.out.Inbox = pure.in.InboxIRI
       /\ pure.out.Outbox = pure.in.OutboxIRI
       /\ pure.out.Liked = pure.in.LikedIRI
       /\ pure.out.Followers = pure.in.FollowersIRI
       /\ pure.out.Following = pure.in.FollowingIRI
       /\ pure.out.URL = pure.in.URL

\* C21: BuildObjectIDFromItem fails exactly for an item without a hash;
\* for an item that carries a remote id it returns that id, otherwise
\* {objectsBase}/{escaped hash}; and called again for the item whose
\* remote id was set from its result it returns the same result.
C21_ObjectIDFailsOnlyWithoutHash ==
    (pure.op = "BuildObjectIDFromItem" /\ pure.done) =>
        /\ pure.out[2] <=> Len(pure.in.Hash) > 0
        /\ ~pure.out[2] => pure.out[1] = NilIRI
        /\ pure.out[2] =>
              pure.out[1] = IF pure.in.hasMeta /\ Len(pure.in.ID) > 0
                            THEN pure.in.ID
                            ELSE Append(ObjectsURL, PathEscape(pure.in.Hash))
        /\ pure.again => pure.out2 = pure.out

\* the id was derived from the hash of an item without a remote id, and
\* built again for the item carrying it
C21_Witness ==
    /\ pure.op = "BuildObjectIDFromItem"
    /\ pure.again
    /\ ~pure.in.hasMeta
    /\ pure.out2 = <<Append(ObjectsURL, "k1k2k3k4"), TRUE>>

\* the item carried a remote id of another instance and got it back
C21_WitnessRemote ==
    /\ pure.op = "BuildObjectIDFromItem"
    /\ pure.done
    /\ pure.in.Hash = "r1r2r3r4"
    /\ pure.out = <<pure.in.ID, TRUE>>

\* the label of each collection kind
KindLabel ==
    [Inbox |-> "inbox", Outbox |-> "outbox", Liked |-> "liked",
     Followers |-> "followers", Following |-> "following"]

\* C22: BuildCollectionID returns {actorsBase}/{hash}/{kind} for an account
\* with a handle and {base}/{kind} for the anonymous actor, for each of the
\* five collection kinds.
C22_CollectionIDByActor ==
    (pure.op = "BuildCollectionID" /\ pure.done) =>
        pure.out = IF pure.in.Handle = Anonymous \/ Len(pure.in.Handle) = 0
                   THEN Append(BaseURL, KindLabel[pure.kind])
                   ELSE ActorsURL \o <<pure.in.Hash, KindLabel[pure.kind]>>

-----------------------------------------------------------------------------
(* BuildActorID called between the operations of the repository.           *)

\* the accounts BuildActorID is called for
ActorInputs == <<AccountA, AccountB, AnonymousAccount>>

\* pure[k] holds the identifiers returned so far for the k-th account
InitActorID ==
    /\ rAccount = NilAccount
    /\ signFn = NoSignFn
    /\ hubLog = <<>>
    /\ hubFault = FALSE
    /\ call = Idle
    /\ callers = NoCallers
    /\ fold = [items |-> <<>>, votes |-> <<>>, done |-> FALSE]
    /\ pure = [k \in DOMAIN ActorInputs |-> {}]

CallBuildActorID ==
    /\ \E k \in DOMAIN ActorInputs :
        pure' = [pure EXCEPT ![k] = @ \cup {BuildActorID(ActorInputs[k])}]
    /\ UNCHANGED <<rAccount, signFn, hubLog, hubFault, call, callers, fold>>

NextActorID ==
    \/ DoWithAccount
    \/ DoSaveAccount
    \/ Return
    \/ CallBuildActorID

SpecActorID == InitActorID /\ [][NextActorID]_vars

====
